---- MODULE Spec2Model ----
(***************************************************************************)
(* A model of shakelib's rupture factory (shakelib/grind/rupture/          *)
(* factory.py) and of the quad rupture geometry                            *)
(* (shakelib/grind/rupture/quad_rupture.py).                               *)
(*                                                                         *)
(* Coordinates.  A vertex is a record [x, y, z]: x the longitude, y the    *)
(* latitude and z the depth (positive down), as in an OpenQuake Point.     *)
(* The model works on an integer grid in a local flat frame: one grid step *)
(* of depth is DEPTH_TOL, so that depths that are equal, within tolerance  *)
(* and beyond tolerance are all on the grid.                               *)
(***************************************************************************)
EXTENDS Integers, Sequences, FiniteSets, TLC

\* ------------------------------------------------------------------ bounds
\* Total number of top/bottom vertex pairs in one rupture description.
MaxPairs == 3
\* Number of polygon rings in one rupture description.
MaxRings == 2
\* Number of lines of a legacy text file.
MaxLines == 4
\* Number of quads of a rupture under a distance query.
MaxQuads == 2
\* Depth steps of the quads and of the sites of the queries.
MaxDepth == 1
\* Horizontal reach of a quad's edges in the strike fix.
MaxExtent == 1

\* ------------------------------------------------------- program constants
\* constants.DEPTH_TOL: the depth grid is in units of this tolerance.
DEPTH_TOL == 1
\* The coplanarity tolerance of utils.is_quad, in depth grid units.
OFFPLANE_TOL == 1

\* The depth levels of the inputs: equal, within and beyond the tolerance.
Depths == 0 .. (2 * DEPTH_TOL)
\* Horizontal spacing of the vertices of the input rings.
HStep == 2 * OFFPLANE_TOL

\* ------------------------------------------------------- Python semantics
Abs(a) == IF a < 0 THEN -a ELSE a
Min(a, b) == IF a <= b THEN a ELSE b
Max(a, b) == IF a >= b THEN a ELSE b

\* int(a / 2): true division, then truncation toward zero.
PyIntHalf(a) == IF a >= 0 THEN a \div 2 ELSE -((-a) \div 2)

\* s[i] for a Python list s and a (possibly negative) index i.
PyIdx(s, i) == IF i >= 0 THEN s[i + 1] ELSE s[Len(s) + i + 1]

\* s[a:b] for a Python list s.
PyClamp(s, i) == IF i < 0 THEN Max(Len(s) + i, 0) ELSE Min(i, Len(s))
PySlice(s, a, b) == SubSeq(s, PyClamp(s, a) + 1, PyClamp(s, b))

\* ----------------------------------------------------------------- vectors
Pt(px, py, pz) == [x |-> px, y |-> py, z |-> pz]

\* impactutils Vector.fromPoint: the vertex in a Cartesian frame whose third
\* axis points up (the depth changes sign).
fromPoint(P) == [x |-> P.x, y |-> P.y, z |-> -P.z]

VSub(a, b) == [x |-> a.x - b.x, y |-> a.y - b.y, z |-> a.z - b.z]
VAdd(a, b) == [x |-> a.x + b.x, y |-> a.y + b.y, z |-> a.z + b.z]
VDot(a, b) == a.x * b.x + a.y * b.y + a.z * b.z
VCross(a, b) == [x |-> a.y * b.z - a.z * b.y,
                 y |-> a.z * b.x - a.x * b.z,
                 z |-> a.x * b.y - a.y * b.x]
VScale(a, k) == [x |-> a.x * k, y |-> a.y * k, z |-> a.z * k]

\* ----------------------------------------------------------- utils.is_quad
\* The distance of the quad's fourth point to the plane of the other three,
\* dist = |(p3 - p0) . n| / |n| with n the plane's normal, is within
\* OFFPLANE_TOL (compared squared).
is_quad_on_plane(q) ==
    LET p0 == fromPoint(q[1])
        p1 == fromPoint(q[2])
        p2 == fromPoint(q[3])
        p3 == fromPoint(q[4])
        n == VCross(VSub(p1, p0), VSub(p2, p0))
        num == VDot(VSub(p3, p0), n)
    IN  num * num <= OFFPLANE_TOL * OFFPLANE_TOL * VDot(n, n)

\* is_quad returns (on_plane, fixed_quad).
is_quad(q) == [on_plane |-> is_quad_on_plane(q), fixed_quad |-> q]

\* ------------------------------------------------------ the GeoJSON dictionary
\* A rupture dictionary d is [type, features]; a feature is
\* [type, hasReference, reference, gtype, hasCoordinates, polygons], where
\* polygons stands for geometry['coordinates'][0], the list of rings.
NoExc == "none"

\* ----------------------------------------------------- factory.validate_json
\* The test of one pair: the top must not be deeper than the bottom.
top_not_above_bottom(top_depth, bot_depth) == top_depth >= bot_depth

top_below_bottom(top_depth, bot_depth) == top_depth > bot_depth

\* The pair loop of one ring: top p[j] against bottom p[-(j + 2)].
RECURSIVE validate_pairs(_, _, _)
validate_pairs(p, j, n_pairs) ==
    IF j >= n_pairs THEN NoExc
    ELSE LET top_depth == PyIdx(p, j).z
             bot_depth == PyIdx(p, -(j + 2)).z
         IN  IF top_below_bottom(top_depth, bot_depth) THEN "TopBelowBottom"
             ELSE validate_pairs(p, j + 1, n_pairs)

\* The checks of one ring.  p[0] of an empty ring raises IndexError.
validate_ring_no_parity(p) ==
    LET n_points == Len(p)
    IN  IF n_points = 0 THEN "IndexError"
        ELSE IF PyIdx(p, 0) # PyIdx(p, -1) THEN "NotClosed"
        ELSE validate_pairs(p, 0, PyIntHalf(n_points - 1))

validate_ring(p) ==
    LET n_points == Len(p)
    IN  IF n_points % 2 = 0 THEN "NotOdd"
        ELSE IF PyIdx(p, 0) # PyIdx(p, -1) THEN "NotClosed"
        ELSE validate_pairs(p, 0, PyIntHalf(n_points - 1))

\* The loop over the polygons, in order: the first violation is raised.
RECURSIVE validate_polygons(_, _)
validate_polygons(polygons, i) ==
    IF i > Len(polygons) THEN NoExc
    ELSE LET e == validate_ring(polygons[i])
         IN  IF e # NoExc THEN e ELSE validate_polygons(polygons, i + 1)

\* The name of the exception validate_json raises on d, or NoExc.
validate_json(d) ==
    IF d.type # "FeatureCollection" THEN "NotFeatureCollection"
    ELSE IF Len(d.features) # 1 THEN "NotOneFeature"
    ELSE LET f == d.features[1]
         IN  IF ~f.hasReference THEN "NoReference"
             ELSE IF f.type # "Feature" THEN "NotFeature"
             ELSE IF f.gtype # "MultiPolygon" THEN "NotMultiPolygon"
             ELSE IF ~f.hasCoordinates THEN "NoCoordinates"
             ELSE validate_polygons(f.polygons, 1)

\* ------------------------------------------------ factory.is_quadrupture_class
\* np.isclose(a[0], a, rtol=0, atol=DEPTH_TOL).all()
AllCloseToFirst(a) == \A k \in 1 .. Len(a) : Abs(a[1] - a[k]) <= DEPTH_TOL

\* The sub-quad with the bottom vertices of the pair before.
class_quad_shifted(p, j) ==
    << PyIdx(p, j), PyIdx(p, j + 1), PyIdx(p, -(j + 2)), PyIdx(p, -(j + 1)) >>

\* The sub-quad j of ring p that the classifier tests.
class_quad(p, j) ==
    << PyIdx(p, j), PyIdx(p, j + 1), PyIdx(p, -(j + 3)), PyIdx(p, -(j + 2)) >>

\* The inner loop over the sub-quads of one ring.
RECURSIVE class_quads(_, _, _, _)
class_quads(p, j, n_quads, isQuad) ==
    IF j >= n_quads THEN isQuad
    ELSE class_quads(p, j + 1, n_quads,
                     IF is_quad(class_quad(p, j)).on_plane THEN isQuad
                     ELSE FALSE)

\* The sub-quads that the inner loop passes to is_quad for one ring, in the
\* order of the loop.
class_tested(p) ==
    LET n_quads == PyIntHalf(Len(p) - 1) - 1
    IN  [k \in 1 .. Max(n_quads, 0) |-> class_quad(p, k - 1)]

\* One iteration of the loop over the polygons: [exc, val] with val the new
\* value of isQuad.  tops[0] on an empty array raises IndexError.
class_ring(p, isQuad) ==
    LET n_points == Len(p)
        n_pairs == PyIntHalf(n_points - 1)
        depths == [k \in 1 .. n_points |-> p[k].z]
        tops == PySlice(depths, 0, n_pairs)
        bots == PySlice(depths, n_pairs, -1)
        q1 == IF AllCloseToFirst(tops) THEN isQuad ELSE FALSE
        q2 == IF AllCloseToFirst(bots) THEN q1 ELSE FALSE
    IN  IF Len(tops) = 0 \/ Len(bots) = 0
        THEN [exc |-> "IndexError", val |-> FALSE]
        ELSE [exc |-> NoExc, val |-> class_quads(p, 0, n_pairs - 1, q2)]

RECURSIVE class_polygons(_, _, _)
class_polygons(polygons, i, isQuad) ==
    IF i > Len(polygons) THEN [exc |-> NoExc, val |-> isQuad]
    ELSE LET r == class_ring(polygons[i], isQuad)
         IN  IF r.exc # NoExc THEN r
             ELSE class_polygons(polygons, i + 1, r.val)

\* [exc, val]: the exception raised, or the returned flag.
is_quadrupture_class(d) == class_polygons(d.features[1].polygons, 1, TRUE)

\* ------------------------------------------------- QuadRupture (quad_rupture.py)
\* The group separator of the vertex arrays (np.nan).
NaN == [nan |-> TRUE]
IsNaN(v) == "nan" \in DOMAIN v

\* eps of _fixStrikeDirection is 1e-6 km against a step of 1 m = 1e-3 km along
\* the unit normal: the test is on the normal's downward component, relative
\* to its length, against 1 / EPS_INV.
EPS_INV == 1000

\* (tmpz - P0.depth) < eps, for tmp = p0 + qnv and qnv the unit vector of n:
\* the depth gained along qnv is -n.z / |n|; a null n gives NaN, and a
\* comparison with NaN is False.
StrikeTestPasses(n) ==
    LET nn == VDot(n, n)
        m == EPS_INV * Abs(n.z)
    IN  IF nn = 0 THEN FALSE
        ELSE IF n.z >= 0 THEN TRUE
        ELSE (m <= nn) /\ (m * m < nn)

\* The swap of the top edge alone.
fixStrikeDirection_top_only(quad) ==
    LET p0 == fromPoint(quad[1])
        p1 == fromPoint(quad[2])
        p2 == fromPoint(quad[3])
        qnv == VCross(VSub(p2, p0), VSub(p1, p0))
    IN  IF StrikeTestPasses(qnv) THEN quad
        ELSE << quad[2], quad[1], quad[3], quad[4] >>

fixStrikeDirection(quad) ==
    LET p0 == fromPoint(quad[1])
        p1 == fromPoint(quad[2])
        p2 == fromPoint(quad[3])
        qnv == VCross(VSub(p2, p0), VSub(p1, p0))
    IN  IF StrikeTestPasses(qnv) THEN quad
        ELSE << quad[2], quad[1], quad[4], quad[3] >>

\* The quad loop of one group.  acc is [quads, raw]: the stored quads and the
\* quads as first assembled (before utils.is_quad and the strike fix).
setQuadsNoStep(quad_end) == quad_end

setQuadsStep(quad_end) == quad_end - 1

RECURSIVE setQuads(_, _, _, _, _, _)
setQuads(seg, j, nquads, quad_start, quad_end, acc) ==
    IF j >= nquads THEN acc
    ELSE LET P0 == PyIdx(seg, quad_start)
             P1 == PyIdx(seg, quad_start + 1)
             P2 == PyIdx(seg, quad_end - 1)
             P3 == PyIdx(seg, quad_end)
             quad == << P0, P1, P2, P3 >>
             fixed_quad == fixStrikeDirection(is_quad(quad).fixed_quad)
         IN  setQuads(seg, j + 1, nquads, quad_start + 1,
                      setQuadsStep(quad_end),
                      [quads |-> Append(acc.quads, fixed_quad),
                       raw |-> Append(acc.raw, quad)])

\* [groupind] * nquads
Repeat(v, n) == [k \in 1 .. Max(n, 0) |-> v]

\* The loop over the groups.  group_ends are the 0-based positions of the
\* separators; acc is [quads, raw, group_index].
RECURSIVE setGroups(_, _, _, _, _)
setGroups(verts, group_ends, i, group_start, acc) ==
    IF i > Len(group_ends) THEN acc
    ELSE LET seg == PySlice(verts, group_start, group_ends[i])
             npoints == Len(seg)
             nquads == PyIntHalf(npoints - 4) + 1
             g == setQuads(seg, 0, nquads, 0, -1,
                           [quads |-> acc.quads, raw |-> acc.raw])
         IN  setGroups(verts, group_ends, i + 1, group_ends[i] + 1,
                       [quads |-> g.quads, raw |-> g.raw,
                        group_index |->
                            acc.group_index \o Repeat(i - 1, nquads)])

\* np.where(np.isnan(lon))[0], in increasing order.
RECURSIVE NaNPositions(_, _)
NaNPositions(verts, k) ==
    IF k > Len(verts) THEN << >>
    ELSE (IF IsNaN(verts[k]) THEN << k - 1 >> ELSE << >>)
         \o NaNPositions(verts, k + 1)

setQuadrilaterals(verts) ==
    setGroups(verts, NaNPositions(verts, 1), 1, 0,
              [quads |-> << >>, raw |-> << >>, group_index |-> << >>])

\* __init__: every ring without its last vertex, followed by the separator.
RECURSIVE InitVerts(_, _)
InitVerts(polys, i) ==
    IF i > Len(polys) THEN << >>
    ELSE PySlice(polys[i], 0, -1) \o << NaN >> \o InitVerts(polys, i + 1)

NoRupture == [cls |-> "none"]

QuadRuptureInit(d, origin) ==
    LET verts == InitVerts(d.features[1].polygons, 1)
        q == setQuadrilaterals(verts)
    IN  [cls |-> "QuadRupture", origin |-> origin,
         reference |-> d.features[1].reference, verts |-> verts,
         quads |-> q.quads, raw |-> q.raw, group_index |-> q.group_index]

\* EdgeRupture and PointRupture keep the dictionary and the origin.
EdgeRuptureInit(d, origin) ==
    [cls |-> "EdgeRupture", origin |-> origin,
     reference |-> d.features[1].reference]

PointRuptureInit(origin) == [cls |-> "PointRupture", origin |-> origin]

\* ------------------------------------------------------- factory.text_to_json
\* A line of a legacy text file is [kind, parts]: a "vertex" line with
\* parts = <<lat, lon, depth>>, a "sep" line (">"), a "comment" line ("#..."),
\* a "blank" line, or a "short" line (fewer than three fields).

\* The first loop: the list of [lon, lat, depth] vertices and separators.
\* A separator is kept only once a vertex or separator is already stored.
RECURSIVE text_read(_, _, _)
text_read(lines, k, xyz) ==
    IF k > Len(lines) THEN [exc |-> NoExc, val |-> xyz]
    ELSE LET line == lines[k]
         IN  CASE line.kind = "comment" -> text_read(lines, k + 1, xyz)
               [] line.kind = "sep" ->
                    text_read(lines, k + 1,
                              IF Len(xyz) > 0 THEN Append(xyz, NaN) ELSE xyz)
               [] line.kind = "blank" -> text_read(lines, k + 1, xyz)
               [] line.kind = "short" ->
                    [exc |-> "ShakeLibException", val |-> xyz]
               [] OTHER ->
                    text_read(lines, k + 1,
                              Append(xyz, Pt(line.parts[2], line.parts[1],
                                             line.parts[3])))

\* coords.append(poly) with the first vertex of poly repeated at its end.
coords_append_closed(coords, poly) ==
    Append(coords, IF poly = << >> THEN poly ELSE Append(poly, poly[1]))

\* coords.append(poly): the vertices read, and no other.
coords_append(coords, poly) == Append(coords, poly)

\* The second loop: one polygon per separator, and the rest if not empty.
RECURSIVE text_coords(_, _, _, _)
text_coords(xyz, k, coords, poly) ==
    IF k > Len(xyz)
    THEN IF poly # << >> THEN coords_append(coords, poly) ELSE coords
    ELSE IF IsNaN(xyz[k])
         THEN text_coords(xyz, k + 1, coords_append(coords, poly), << >>)
         ELSE text_coords(xyz, k + 1, coords, Append(poly, xyz[k]))

\* reference += sline, over the comment lines; the parts of a comment line
\* are its stripped text, the '#' included.
RECURSIVE text_reference(_, _)
text_reference(lines, k) ==
    IF k > Len(lines) THEN ""
    ELSE (IF lines[k].kind = "comment" THEN lines[k].parts ELSE "")
         \o text_reference(lines, k + 1)

GeoJSON(polygons, reference) ==
    [type |-> "FeatureCollection",
     features |-> << [type |-> "Feature", hasReference |-> TRUE,
                      reference |-> reference, gtype |-> "MultiPolygon",
                      hasCoordinates |-> TRUE, polygons |-> polygons] >>]

\* [exc, val].  A file whose content is a JSON document has no line that
\* parses as three numbers: float() raises ValueError.
text_to_json(file) ==
    IF file.fmt = "json" THEN [exc |-> "ValueError", val |-> file.json]
    ELSE LET r == text_read(file.lines, 1, << >>)
         IN  IF r.exc # NoExc THEN [exc |-> r.exc, val |-> file.json]
             ELSE [exc |-> NoExc,
                   val |-> GeoJSON(text_coords(r.val, 1, << >>, << >>),
                                   text_reference(file.lines, 1))]

\* -------------------------------------------------------- factory.get_rupture
\* A rupture file is [form, fmt, json, lines]: given as a "path" (a str) or as
\* a "filelike" object; its content is a JSON document (fmt = "json", decoding
\* to the dictionary json) or legacy text (fmt = "text", the lines).
NoFile == [form |-> "None"]
NoDict == [type |-> "none", features |-> << >>]

\* json.load(f) of an opened path decodes the content; json.loads(str(file))
\* of a file-like object decodes the object's str(), which is not JSON.
JsonDecodes(file) == (file.form = "path") /\ (file.fmt = "json")

\* --------------------------------------------------------------- reverse_quad
reverse_quad(q) == << q[2], q[1], q[4], q[3] >>

\* ------------------------------------------------------------ the distances
\* A squared distance is a rational [n, d] in lowest terms; the queries return
\* sqrt(dist) / 1000, which keeps zero and the order.  [n |-> 1, d |-> 0] is
\* the value 1e16 that the minimum starts from.  0 / 0 (the distance to the
\* plane of a quad without area) does not arise: the quads have an area.
RECURSIVE GCD(_, _)
GCD(a, b) == IF b = 0 THEN a ELSE GCD(b, a % b)
Rat(n, dd) == LET g == GCD(n, dd) IN IF g = 0 THEN [n |-> 0, d |-> 1]
                                     ELSE [n |-> n \div g, d |-> dd \div g]
RatZero == [n |-> 0, d |-> 1]
RatHuge == [n |-> 1, d |-> 0]
RatLE(a, b) == a.n * b.d <= b.n * a.d

\* _distance_sq_to_segment(p0, p1): the squared distance of the origin to the
\* segment p0 p1.
distance_sq_to_segment(p0, p1) ==
    LET v == VSub(p1, p0)
        c1 == -VDot(p0, v)
        c2 == VDot(v, v)
        tmp == VAdd(VScale(p0, c2), VScale(v, c1))
    IN  IF c2 <= c1 THEN Rat(VDot(p1, p1), 1)
        ELSE IF c1 <= 0 THEN Rat(VDot(p0, p0), 1)
        ELSE Rat(VDot(tmp, tmp), c2 * c2)

np_last(a, b) == b

np_minimum(a, b) == IF RatLE(b, a) THEN b ELSE a

Surface(P) == [P EXCEPT !.z = 0]

\* _quad_distance(q, points, horizontal) for one point.  The sign tests use
\* the normal before it is scaled to unit length.  A quad without area has a
\* NaN normal, and every sign bit is the NaN's, nan_sign.
quad_distance(q, point, horizontal, nan_sign) ==
    LET P0 == IF horizontal THEN Surface(q[1]) ELSE q[1]
        P1 == IF horizontal THEN Surface(q[2]) ELSE q[2]
        P2 == IF horizontal THEN Surface(q[3]) ELSE q[3]
        P3 == IF horizontal THEN Surface(q[4]) ELSE q[4]
        p0 == fromPoint(P0)
        p1 == fromPoint(P1)
        p2 == fromPoint(P2)
        p3 == fromPoint(P3)
        normalVector == VCross(VSub(p1, p0), VSub(p2, p0))
        isnan == VDot(normalVector, normalVector) = 0
        p0d == VSub(p0, point)
        p1d == VSub(p1, point)
        p2d == VSub(p2, point)
        p3d == VSub(p3, point)
        n0 == VCross(VSub(p1, p0), normalVector)
        n1 == VCross(VSub(p2, p1), normalVector)
        n2 == VCross(VSub(p3, p2), normalVector)
        n3 == VCross(VSub(p0, p3), normalVector)
        sgn0 == IF isnan THEN nan_sign ELSE VDot(n0, p0d) < 0
        sgn1 == IF isnan THEN nan_sign ELSE VDot(n1, p1d) < 0
        sgn2 == IF isnan THEN nan_sign ELSE VDot(n2, p2d) < 0
        sgn3 == IF isnan THEN nan_sign ELSE VDot(n3, p3d) < 0
        inside_idx == (sgn0 = sgn1) /\ (sgn1 = sgn2) /\ (sgn2 = sgn3)
        s0 == distance_sq_to_segment(p0d, p1d)
        s1 == distance_sq_to_segment(p1d, p2d)
        s2 == distance_sq_to_segment(p2d, p3d)
        s3 == distance_sq_to_segment(p3d, p0d)
        smin == np_minimum(np_minimum(s0, s1), np_minimum(s2, s3))
    IN  IF inside_idx
        THEN IF horizontal THEN RatZero
             ELSE Rat(VDot(p0d, normalVector) * VDot(p0d, normalVector),
                      VDot(normalVector, normalVector))
        ELSE smin

\* computeRjb(lon, lat, depth) for one site: the loop over the quads.
RECURSIVE computeRjbLoop(_, _, _, _, _)
computeRjbLoop(quads, i, sites_ecef, nan_sign, minrjb) ==
    IF i > Len(quads) THEN minrjb
    ELSE LET squad == [k \in 1 .. 4 |-> Surface(quads[i][k])]
             rjbdist == quad_distance(squad, sites_ecef, TRUE, nan_sign)
         IN  computeRjbLoop(quads, i + 1, sites_ecef, nan_sign,
                            np_minimum(minrjb, rjbdist))

computeRjb(quads, site, nan_sign) ==
    computeRjbLoop(quads, 1, fromPoint(site), nan_sign, RatHuge)

\* computeRrup(lon, lat, depth) for one site.
RECURSIVE computeRrupLoop(_, _, _, _)
computeRrupLoop(quads, i, sites_ecef, minrrup) ==
    IF i > Len(quads) THEN minrrup
    ELSE LET rrupdist == quad_distance(quads[i], sites_ecef, FALSE, FALSE)
         IN  computeRrupLoop(quads, i + 1, sites_ecef,
                             np_minimum(minrrup, rrupdist))

computeRrup(quads, site) == computeRrupLoop(quads, 1, fromPoint(site), RatHuge)

\* ------------------------------------------------------------ the accessors
\* getQuadrilaterals() and _getGroupIndex(): what the caller gets, a deep copy
\* (alias FALSE) or the list of the rupture itself (alias TRUE).
getQuadrilaterals_itself(quads) == [of |-> "quads", alias |-> TRUE, val |-> quads]

getQuadrilaterals(quads) == [of |-> "quads", alias |-> FALSE, val |-> quads]

getGroupIndex(group_ind) == [of |-> "group", alias |-> FALSE, val |-> group_ind]

\* getNumGroups() and getNumQuads().
getNumGroups(group_ind) == Cardinality({ group_ind[i] : i \in 1 .. Len(group_ind) })
getNumQuads(quads) == Len(quads)

\* A float of an array, as against NaN.
Num(n) == [v |-> n]

\* s[::-1]
PyReverse(s) == [k \in 1 .. Len(s) |-> s[Len(s) + 1 - k]]

\* np.unique(groups) as the sorted array it is.
RECURSIVE np_sorted(_)
np_sorted(S) ==
    IF S = {} THEN << >>
    ELSE LET m == CHOOSE x \in S : \A y \in S : x <= y
         IN  << m >> \o np_sorted(S \ {m})

\* np.where(groups == u)[0], places from 1.
np_where(groups, u) ==
    SelectSeq([i \in 1 .. Len(groups) |-> i], LAMBDA i : groups[i] = u)

\* bot_lats[::-1] with the bottom vertices not reversed.
bot_forward(bot) == bot

\* bot_lats[::-1]
bot_reversed(bot) == PyReverse(bot)

\* One pass of the loop over the groups in lats and lons: the outline of the
\* quads at q_ind in the coordinate coord ("latitude" is y, "longitude" is x).
outline(quads, q_ind, coord) ==
    LET of(P) == IF coord = "latitude" THEN Num(P.y) ELSE Num(P.x)
        nq == Len(q_ind)
        top0 == << of(quads[q_ind[1]][1]) >>
        bot0 == << of(quads[q_ind[1]][4]) >>
        top == top0 \o [j \in 1 .. nq |-> of(quads[q_ind[j]][2])]
        bot == bot0 \o [j \in 1 .. nq |-> of(quads[q_ind[j]][3])]
    IN  top \o bot_reversed(bot) \o top0 \o << NaN >>

RECURSIVE outlines(_, _, _, _, _)
outlines(quads, groups, u_groups, i, coord) ==
    IF i > Len(u_groups) THEN << >>
    ELSE outline(quads, np_where(groups, u_groups[i]), coord)
         \o outlines(quads, groups, u_groups, i + 1, coord)

\* The properties lats and lons.
lats(quads, groups) ==
    outlines(quads, groups,
             np_sorted({ groups[i] : i \in 1 .. Len(groups) }), 1, "latitude")

lons(quads, groups) ==
    outlines(quads, groups,
             np_sorted({ groups[i] : i \in 1 .. Len(groups) }), 1, "longitude")

\* ---------------------------------------------------------------- _computeGC2
\* Vector.fromPoint gives metres; the projection, get_quad_length and the
\* offsets s_ij of _computeGC2 are in km.
M_PER_KM == 1000

Sgn(a) == IF a > 0 THEN 1 ELSE IF a < 0 THEN -1 ELSE 0

\* The values of the GC2 arithmetic are rationals [n, d] with d > 0, or NaN.
RatOf(k) == [n |-> k, d |-> 1]
RatNorm(n, dd) == IF dd < 0 THEN Rat(-n, -dd) ELSE Rat(n, dd)
RatAdd(a, b) ==
    LET g == GCD(a.d, b.d)
    IN  Rat(a.n * (b.d \div g) + b.n * (a.d \div g), (a.d \div g) * b.d)
RatSub(a, b) == RatAdd(a, [n |-> -b.n, d |-> b.d])
RatMul(a, b) ==
    LET g == GCD(Abs(a.n), b.d)
        h == GCD(Abs(b.n), a.d)
    IN  Rat((a.n \div g) * (b.n \div h), (a.d \div h) * (b.d \div g))
RatInv(a) == RatNorm(a.d, a.n)
RatLT(a, b) == a.n * b.d < b.n * a.d
\* a / b of numpy floats: 0 / 0 is NaN (a warning, no exception).
np_divide(a, b) ==
    IF b.n = 0 THEN (IF a.n = 0 THEN NaN ELSE [n |-> Sgn(a.n), d |-> 0])
    ELSE RatMul(a, RatInv(b))

\* Vector.mag(), for the vectors of the model: their lengths are whole.
mag(v) ==
    IF v.y = 0 /\ v.z = 0 THEN Abs(v.x)
    ELSE IF v.x = 0 /\ v.z = 0 THEN Abs(v.y)
    ELSE IF v.x = 0 /\ v.y = 0 THEN Abs(v.z)
    ELSE CHOOSE k \in 0 .. (Abs(v.x) + Abs(v.y) + Abs(v.z)) : k * k = VDot(v, v)

\* v.norm().dot(w): NaN for a null v.
norm_dot(v, w) ==
    IF VDot(v, v) = 0 THEN NaN ELSE Rat(VDot(v, w), mag(v))

\* get_quad_length(q), km.
get_quad_length(q) ==
    Rat(mag(VSub(fromPoint(q[2]), fromPoint(q[1]))), M_PER_KM)

\* get_quad_width(q): AC along the unit vector across the top edge in the
\* plane of the quad; Vector.fromPoint gives metres, and so is the width.
get_quad_width(q) ==
    LET p0 == fromPoint(q[1])
        p1 == fromPoint(q[2])
        p3 == fromPoint(q[4])
        AB == VSub(p0, p1)
        AC == VSub(p0, p3)
    IN  norm_dot(VCross(VCross(AB, AC), AB), AC)

\* getArea(): the sum of w * l over the quads.
RECURSIVE getArea(_, _)
getArea(quads, i) ==
    IF i > Len(quads) THEN RatZero
    ELSE RatAdd(RatMul(get_quad_width(quads[i]), get_quad_length(quads[i])),
                getArea(quads, i + 1))

\* getIndividualWidths() and getIndividualTopLengths(), km.
getIndividualWidths(quads) ==
    [i \in 1 .. Len(quads) |-> RatMul(get_quad_width(quads[i]), Rat(1, M_PER_KM))]

getIndividualTopLengths(quads) ==
    [i \in 1 .. Len(quads) |->
       Rat(mag(VSub(fromPoint(quads[i][2]), fromPoint(quads[i][1]))), M_PER_KM)]

\* iq0[k], iq1[k]: the places (from 1) of the first and of the last quad with
\* group index k.
iq0(group_ind, k) ==
    CHOOSE i \in 1 .. Len(group_ind) :
        /\ group_ind[i] = k
        /\ \A j \in 1 .. Len(group_ind) : group_ind[j] = k => i <= j

iq1(group_ind, k) ==
    CHOOSE i \in 1 .. Len(group_ind) :
        /\ group_ind[i] = k
        /\ \A j \in 1 .. Len(group_ind) : group_ind[j] = k => j <= i

\* np.unique(group_ind), and its length.
np_unique(group_ind) == { group_ind[i] : i \in 1 .. Len(group_ind) }

\* it.product(it.combinations(uind, 2), it.product([0, 1], [0, 1])), in the
\* order of the iteration, for uind = 0 .. n - 1.
RECURSIVE it_seg(_, _, _, _)
it_seg(n, s0, s1, acc) ==
    IF s0 >= n - 1 THEN acc
    ELSE IF s1 >= n THEN it_seg(n, s0 + 1, s0 + 2, acc)
    ELSE it_seg(n, s0, s1 + 1,
                acc \o << << s0, s1, 0, 0 >>, << s0, s1, 0, 1 >>,
                          << s0, s1, 1, 0 >>, << s0, s1, 1, 1 >> >>)

\* The place << quad, vertex >> of the second point of a candidate pair: of
\* the last quad of the trace its first vertex, of the first quad its second
\* vertex.
second_point(group_ind, s1ind, p1ind) ==
    IF p1ind = 0 THEN << iq1(group_ind, s1ind), 1 >>
    ELSE << iq0(group_ind, s1ind), 2 >>

\* geodetic.distance(P0, P1) at depth 0, squared.
geodetic_distance_sq(P0, P1) ==
    LET v == VSub(Surface(P0), Surface(P1)) IN VDot(v, v)

\* Op applied to the value of v, with v computed once.
Eval(v, Op(_)) == CHOOSE y \in { Op(x) : x \in {v} } : TRUE

\* The loop over it_seg: acc is [dist_save, A0, A1, at]; A0 and A1 are unbound
\* until a distance exceeds 0; at holds the places << quad, vertex >> of the
\* two Point objects in quadlist.
Unbound == [unbound |-> TRUE]

RECURSIVE farthest(_, _, _, _, _)
farthest(quadlist, group_ind, seg, k, acc) ==
    IF k > Len(seg) THEN acc
    ELSE LET s0ind == seg[k][1]
             s1ind == seg[k][2]
             at0 == IF seg[k][3] = 0 THEN << iq0(group_ind, s0ind), 1 >>
                    ELSE << iq1(group_ind, s0ind), 2 >>
             at1 == second_point(group_ind, s1ind, seg[k][4])
             P0 == quadlist[at0[1]][at0[2]]
             P1 == quadlist[at1[1]][at1[2]]
             dist == geodetic_distance_sq(P0, P1)
         IN  Eval(IF dist > acc.dist_save
                  THEN [dist_save |-> dist, A0 |-> P0, A1 |-> P1,
                        at |-> {at0, at1}]
                  ELSE acc,
                  LAMBDA saved : farthest(quadlist, group_ind, seg, k + 1, saved))

\* np.sign of a rational (or NaN) and of the sum E.
np_sign(a) == IF IsNaN(a) THEN NaN ELSE Sgn(a.n)

RECURSIVE np_sum(_, _)
np_sum(a, k) == IF k > Len(a) THEN RatZero ELSE RatAdd(a[k], np_sum(a, k + 1))

\* b = sum of b_prime[j] * dc[j].
RECURSIVE b_sum(_, _, _)
b_sum(b_prime, dc, j) ==
    IF j > Len(b_prime) THEN Pt(0, 0, 0)
    ELSE VAdd(VScale(b_prime[j], dc[j]), b_sum(b_prime, dc, j + 1))

\* One pass of the while loop that puts the origin on the side the traces
\* strike away from: [A0, A1, a, E, dc, b, dummy_negative], a the vector from
\* A0 to A1 (ahat before it is scaled to unit length); bhat of b = 0 is NaN,
\* and NaN < 0 is false.
discordance_pass(quadlist, group_ind, n_groups, A0, A1) ==
    LET a0 == fromPoint(Surface(A0))
        a1 == fromPoint(Surface(A1))
        a == VSub(a1, a0)
        b_prime == [j \in 1 .. n_groups |->
                      VSub(fromPoint(Surface(quadlist[iq1(group_ind, j - 1)][2])),
                           fromPoint(Surface(quadlist[iq0(group_ind, j - 1)][1])))]
        e_j == [j \in 1 .. n_groups |-> norm_dot(a, b_prime[j])]
        E == np_sum(e_j, 1)
        dc == [j \in 1 .. n_groups |-> np_sign(e_j[j]) * np_sign(E)]
        b == b_sum(b_prime, dc, 1)
    IN  [A0 |-> Surface(A0), A1 |-> Surface(A1), a |-> a, E |-> E, dc |-> dc,
         b |-> b, dummy_negative |-> (VDot(b, b) # 0 /\ VDot(b, a) < 0)]

\* "A0 = tmpA1; A1 = tmpA0", and the same without the exchange.
same_ends(A0, A1) == << A0, A1 >>

swapped_ends(A0, A1) == << A1, A0 >>

\* The passes of the while loop, MaxPasses of them at most: the list of them.
MaxPasses == 3

RECURSIVE discordance_loop(_, _, _, _, _, _)
discordance_loop(quadlist, group_ind, n_groups, A0, A1, passes) ==
    Eval(discordance_pass(quadlist, group_ind, n_groups, A0, A1), LAMBDA p :
         IF p.dummy_negative /\ Len(passes) + 1 < MaxPasses
         THEN Eval(swapped_ends(A0, A1), LAMBDA ends :
                   discordance_loop(quadlist, group_ind, n_groups, ends[1], ends[2],
                                    Append(passes, p)))
         ELSE Append(passes, p))

\* The while loop: [A0, A1, a, E, dc] of the last pass, and the passes.
discordance(quadlist, group_ind, n_groups, A0, A1) ==
    Eval(discordance_loop(quadlist, group_ind, n_groups, A0, A1, << >>), LAMBDA passes :
         [A0 |-> passes[Len(passes)].A0, A1 |-> passes[Len(passes)].A1,
          a |-> passes[Len(passes)].a, E |-> passes[Len(passes)].E,
          dc |-> passes[Len(passes)].dc, passes |-> passes])

\* quadlist after the while loop: A0.depth = A1.depth = 0, and P0.depth =
\* P1.depth = 0 for the first and the last point of every trace.
depths_zeroed(quadlist, group_ind, at) ==
    [i \in 1 .. Len(quadlist) |->
       [k \in 1 .. 4 |->
          IF \/ << i, k >> \in at
             \/ (k = 1 /\ i = iq0(group_ind, group_ind[i]))
             \/ (k = 2 /\ i = iq1(group_ind, group_ind[i]))
          THEN Surface(quadlist[i][k])
          ELSE quadlist[i][k]]]

\* Step 1 and step 2 of the discordancy fix: the quads of a trace with
\* dc < 0 are flipped, and their order within the trace is reversed.
flip_quads(quadgc2, group_ind, dc) ==
    [i \in 1 .. Len(quadgc2) |->
       IF dc[group_ind[i] + 1] < 0 THEN reverse_quad(quadgc2[i]) ELSE quadgc2[i]]

\* qind after step 2 (places from 1): the places of a trace with dc < 0 in
\* reverse order.
rearranged(group_ind, dc) ==
    [i \in 1 .. Len(group_ind) |->
       IF dc[group_ind[i] + 1] < 0
       THEN LET before == Cardinality({j \in 1 .. (i - 1) : group_ind[j] = group_ind[i]})
                places == {j \in 1 .. Len(group_ind) : group_ind[j] = group_ind[i]}
            IN  CHOOSE j \in places :
                    Cardinality({m \in places : m > j}) = before
       ELSE i]

fix_discordancy(quadgc2, group_ind, dc) ==
    LET flipped == flip_quads(quadgc2, group_ind, dc)
        qind == rearranged(group_ind, dc)
    IN  [i \in 1 .. Len(quadgc2) |-> flipped[qind[i]]]

\* __calc_u_i and __calc_t_i for one site, km: the site along and across the
\* top edge G0 G1, in the projection (horizontal, km).
calc_u_i(G0, G1, site) ==
    LET dd == VSub(Surface(G1), Surface(G0))
        r == VSub(Surface(site), Surface(G0))
    IN  Rat(VDot(dd, r), mag(dd) * M_PER_KM)

calc_t_i(G0, G1, site) ==
    LET dd == VSub(Surface(G1), Surface(G0))
        r == VSub(Surface(site), Surface(G0))
    IN  Rat(dd.y * r.x - dd.x * r.y, mag(dd) * M_PER_KM)

\* The weight of a quad.  Case 1 (t_i != 0) is a difference of arc tangents,
\* which is no rational: the sites of the model lie on the line of the traces.
segment_weight(t_i, u_i, l) ==
    IF t_i.n # 0 THEN CHOOSE w \in {} : TRUE
    ELSE IF RatLT(u_i, RatZero) \/ RatLT(l, u_i)
         THEN RatSub(RatInv(RatSub(u_i, l)), RatInv(u_i))
         ELSE RatZero

\* np.sum(l_i[(group_ind == group_ind[i]) & (qind < i)])
RECURSIVE sum_l_kj(_, _, _, _)
sum_l_kj(group_ind, l_i, i, k) ==
    IF k >= i THEN RatZero
    ELSE IF group_ind[k] = group_ind[i]
         THEN RatAdd(l_i[k], sum_l_kj(group_ind, l_i, i, k + 1))
         ELSE sum_l_kj(group_ind, l_i, i, k + 1)

\* s_ij of quad i for more than one trace: the lengths of the quads before it
\* in its trace, and the place of the first point of the trace along
\* np.sign(E) * ahat from the origin.
s_ij_of(quadgc2, group_ind, l_i, i, p_origin, a, E) ==
    LET s_ij_1 == sum_l_kj(group_ind, l_i, i, 1)
        p1 == fromPoint(quadgc2[iq0(group_ind, group_ind[i])][1])
        s_ij_2 == Rat(VDot(VSub(p1, p_origin), VScale(a, np_sign(E))),
                      mag(a) * M_PER_KM)
    IN  RatAdd(s_ij_1, s_ij_2)

\* The loop over the quads: acc is [totweight, GC2T, GC2U, s_i, s_ij].
RECURSIVE gc2_loop(_, _, _, _, _, _, _)
gc2_loop(quadgc2, group_ind, n_groups, site, ax, i, acc) ==
    IF i > Len(quadgc2) THEN acc
    ELSE LET G0 == quadgc2[i][1]
             G1 == quadgc2[i][2]
             t_i == calc_t_i(G0, G1, site)
             u_i == calc_u_i(G0, G1, site)
             l_i == [k \in 1 .. Len(quadgc2) |-> get_quad_length(quadgc2[k])]
             w_i == segment_weight(t_i, u_i, l_i[i])
             s_ij == IF n_groups = 1 THEN acc.s_ij
                     ELSE s_ij_of(quadgc2, group_ind, l_i, i, fromPoint(ax.A0),
                                  ax.a, ax.E)
             shift == IF n_groups = 1 THEN acc.s_i ELSE s_ij
         IN  Eval([totweight |-> RatAdd(acc.totweight, w_i),
                   GC2T |-> RatAdd(acc.GC2T, RatMul(w_i, t_i)),
                   GC2U |-> RatAdd(acc.GC2U, RatMul(w_i, RatAdd(u_i, shift))),
                   s_i |-> RatAdd(acc.s_i, l_i[i]),
                   s_ij |-> s_ij],
                  LAMBDA sums : gc2_loop(quadgc2, group_ind, n_groups, site, ax,
                                         i + 1, sums))

\* x - y, x < y and x > y of numpy floats, x a rational or NaN.
np_subtract(x, y) == IF IsNaN(x) THEN NaN ELSE RatSub(x, y)
np_less(x, y) == IF IsNaN(x) THEN FALSE ELSE RatLT(x, y)
np_greater(x, y) == IF IsNaN(x) THEN FALSE ELSE RatLT(y, x)
np_abs(x) == [n |-> Abs(x.n), d |-> x.d]

\* The end of the rupture that Ry0 is measured from.
Ry0_end_total(n_groups, s_i, s_ij, l_last) == s_i

\* if n_groups > 1: s_i = s_ij + l_i[-1]
Ry0_end(n_groups, s_i, s_ij, l_last) ==
    IF n_groups > 1 THEN RatAdd(s_ij, l_last) ELSE s_i

\* _computeGC2(rupture, lon, lat, depth) for one site.  The record holds the
\* dictionary returned (T, U, rx, ry, ry0) and, for the claims, the axis, the
\* discordancy list and the quads as the loop saw them.
NoAxis == [A0 |-> Unbound, A1 |-> Unbound, a |-> Pt(0, 0, 0), E |-> RatZero,
           dc |-> << >>, passes |-> << >>]

\* The farthest two end points of the traces, for more than one trace.
farthest_ends(quadlist, group_ind, n_groups) ==
    IF n_groups > 1
    THEN Eval(it_seg(n_groups, 0, 1, << >>),
              LAMBDA seg : farthest(quadlist, group_ind, seg, 1,
                                    [dist_save |-> 0, A0 |-> Unbound,
                                     A1 |-> Unbound, at |-> {}]))
    ELSE [dist_save |-> 0, A0 |-> Unbound, A1 |-> Unbound, at |-> {}]

\* The dictionary returned, from the sums of the loop.
gc2_dict(quadlist, group_ind, n_groups, far, ax, quadgc2, sums) ==
    LET GC2T == np_divide(sums.GC2T, sums.totweight)
        GC2U == np_divide(sums.GC2U, sums.totweight)
        Ry == np_subtract(GC2U, RatMul(sums.s_i, Rat(1, 2)))
        s_end == Ry0_end(n_groups, sums.s_i, sums.s_ij,
                         get_quad_length(quadgc2[Len(quadgc2)]))
        Ry0 == IF np_greater(GC2U, s_end) THEN RatSub(GC2U, s_end)
               ELSE IF np_less(GC2U, RatZero) THEN np_abs(GC2U)
               ELSE RatZero
    IN  [T |-> GC2T, U |-> GC2U, rx |-> GC2T, ry |-> Ry, ry0 |-> Ry0,
         A0 |-> ax.A0, A1 |-> ax.A1, a |-> ax.a, E |-> ax.E, dc |-> ax.dc,
         passes |-> ax.passes,
         quadgc2 |-> quadgc2, s_i |-> sums.s_i, s_end |-> s_end,
         quadlist |-> IF n_groups > 1 THEN depths_zeroed(quadlist, group_ind, far.at)
                      ELSE quadlist]

computeGC2(quadrilaterals_, group_index_, site) ==
    LET quadlist == quadrilaterals_
        group_ind == group_index_
        n_groups == Cardinality(np_unique(group_ind))
    IN  Eval(farthest_ends(quadlist, group_ind, n_groups), LAMBDA far :
        Eval(IF n_groups > 1
             THEN discordance(quadlist, group_ind, n_groups, far.A0, far.A1)
             ELSE NoAxis, LAMBDA ax :
        Eval(IF n_groups > 1 THEN fix_discordancy(quadlist, group_ind, ax.dc)
             ELSE quadlist, LAMBDA quadgc2 :
        Eval(gc2_loop(quadgc2, group_ind, n_groups, site, ax, 1,
                      [totweight |-> RatZero, GC2T |-> RatZero,
                       GC2U |-> RatZero, s_i |-> RatZero, s_ij |-> RatZero]),
             LAMBDA sums :
                gc2_dict(quadlist, group_ind, n_groups, far, ax, quadgc2, sums)))))

\* ------------------------------------------------------------------ the inputs
\* A closed ring over n vertex pairs: the top vertices along x at y = 0 with
\* the depths tops, then the bottom vertices back along x at y = HStep with the
\* depths bots, then the first vertex again.  No pair gives a one-point ring.
RingOf(tops, bots) ==
    LET n == Len(tops)
    IN  IF n = 0 THEN << Pt(0, 0, 0) >>
        ELSE [k \in 1 .. (2 * n + 1) |->
                IF k <= n THEN Pt(HStep * (k - 1), 0, tops[k])
                ELSE IF k <= 2 * n
                THEN Pt(HStep * (2 * n - k), HStep, bots[2 * n + 1 - k])
                ELSE Pt(0, 0, tops[1])]

\* The ring as written in a file: closed, with the closing vertex left out
\* ("open"), or with a closing vertex that is not the first one ("moved").
Tails == {"closed", "open", "moved"}
RingTail(ring, tail) ==
    CASE tail = "closed" -> ring
      [] tail = "open" -> PySlice(ring, 0, -1)
      [] OTHER -> PySlice(ring, 0, -1) \o << Pt(-HStep, 0, 0) >>

Profiles(n) == [1 .. n -> Depths]
Flat(n, dep) == [k \in 1 .. n |-> dep]

\* The top edges of the rings in the files: level and above the bottom, level
\* and below the bottom, or stepping down after the first vertex.
TopKinds == {"above", "below", "step"}
FileTop(n, kind) ==
    CASE kind = "above" -> Flat(n, 0)
      [] kind = "below" -> Flat(n, 3 * DEPTH_TOL)
      [] OTHER -> [k \in 1 .. n |-> IF k = 1 THEN 0 ELSE 2 * DEPTH_TOL]

\* A ring in a file, closed or not; the bottom edge is level.
FileRing(n, kind, tail) ==
    RingTail(RingOf(FileTop(n, kind), Flat(n, 2 * DEPTH_TOL)), tail)

RECURSIVE SumTo(_, _)
SumTo(ns, i) == IF i = 0 THEN 0 ELSE ns[i] + SumTo(ns, i - 1)

\* The pair counts of the rings of a description: at most r rings with at most
\* k pairs in all.
Shapes(k, r) ==
    UNION { { ns \in [1 .. len -> 0 .. k] : SumTo(ns, len) <= k } : len \in 0 .. r }

\* The rings of shape ns in the files, ring i of kind kinds[i] and tail tails[i].
FilePolygons(ns, kinds, tails) ==
    [i \in 1 .. Len(ns) |-> FileRing(ns[i], kinds[i], tails[i])]

\* The closed rings of shape ns whose pairs take their depths, in order, from
\* tops and bots.
GridPolygons(ns, tops, bots) ==
    [i \in 1 .. Len(ns) |->
        RingOf(SubSeq(tops, SumTo(ns, i - 1) + 1, SumTo(ns, i)),
               SubSeq(bots, SumTo(ns, i - 1) + 1, SumTo(ns, i)))]

\* A well-formed ring of one quad, with a dipping plane.
GoodRing == RingOf(Flat(2, 0), Flat(2, DEPTH_TOL))

\* Dictionaries with one structural violation in the header.
BadHeaders ==
    LET ok == GeoJSON(<< GoodRing >>, << >>)
        f == ok.features[1]
    IN  { [ok EXCEPT !.type = "Feature"],
          [ok EXCEPT !.features = << >>],
          [ok EXCEPT !.features = << f, f >>],
          [ok EXCEPT !.features = << [f EXCEPT !.hasReference = FALSE] >>],
          [ok EXCEPT !.features = << [f EXCEPT !.type = "FeatureCollection"] >>],
          [ok EXCEPT !.features = << [f EXCEPT !.gtype = "Polygon"] >>],
          [ok EXCEPT !.features = << [f EXCEPT !.hasCoordinates = FALSE] >>] }

\* The lines of the legacy text files.
TextLine ==
    { [kind |-> "vertex", parts |-> << 0, 0, 0 >>],
      [kind |-> "vertex", parts |-> << 0, HStep, DEPTH_TOL >>],
      [kind |-> "sep", parts |-> << >>],
      [kind |-> "comment", parts |-> "#"],
      [kind |-> "blank", parts |-> << >>],
      [kind |-> "short", parts |-> << 0, 0 >>] }

Forms == {"path", "filelike"}
JsonFile(fm, dd) == [form |-> fm, fmt |-> "json", json |-> dd, lines |-> << >>]
TextFile(fm, ll) == [form |-> fm, fmt |-> "text", json |-> NoDict, lines |-> ll]

Origins == {"None", "origin"}

\* ------------------------------------------------------------------- the state
VARIABLES
    entry,       \* the function the caller called
    pc,          \* the function about to run, or "done"
    origin,      \* the origin argument
    file,        \* the file argument of get_rupture
    d,           \* the rupture dictionary at hand
    inText,      \* inside the try block of the legacy text path
    valid_quads, \* the result of is_quadrupture_class
    outcome,     \* [kind, exc, rupt]: nothing yet, returned or raised
    fixed,       \* the quad given and each result of _fixStrikeDirection on
                 \* it, for a quad (fixed[1]) and for its reverse (fixed[2])
    quadrilaterals, \* the quads of the rupture under the distance queries
    site,        \* the site of the queries
    rjb,         \* the result of computeRjb, squared
    rrup,        \* the result of computeRrup, squared
    group_index, \* the group indices of the quads of the rupture under query
    gc2,         \* the result of computeGC2
    held,        \* the list the caller got from the rupture, and holds
    answers,     \* the answers of the accessors and queries called so far
    shapes,      \* the shapes of the arrays lon, lat and depth of a query
    hdfobj,      \* the HDF file of the container at hand
    tables,      \* the tables of the StationList at hand
    imt,         \* the IMT name given to the conversions, and each result
    calls,       \* the calls made on the object at hand, in order
    reply        \* what the last call returned or raised

factoryVars == << entry, pc, origin, file, d, inText, valid_quads, outcome >>
geomVars == << fixed, quadrilaterals, site, rjb, rrup >>
utilVars == << hdfobj, tables, imt, calls, reply >>
queryVars == << group_index, gc2, held, answers, shapes, utilVars >>
vars == << factoryVars, geomVars, queryVars >>

NoDist == [n |-> -1, d |-> 1]
NoGC2 == [none |-> TRUE]
NoAnswer == [none |-> TRUE]
NoShapes == [none |-> TRUE]
Accessors == {"getNumGroups", "getNumQuads", "getArea", "getIndividualWidths",
              "getIndividualTopLengths", "computeRjb", "computeRrup",
              "computeGC2", "lats", "lons"}

EmptyHDF == [groups |-> << >>]
NoTables == [none |-> TRUE]
NoReply == [op |-> "none"]

\* No container, no station list and no conversion at hand.
UtilIdle ==
    /\ hdfobj = EmptyHDF
    /\ tables = NoTables
    /\ imt = << >>
    /\ calls = << >>
    /\ reply = NoReply

\* Nothing held, nothing answered.
CallerIdle ==
    /\ held = [of |-> "none"]
    /\ answers = [a \in Accessors |-> NoAnswer]
    /\ UtilIdle

\* No query but the two distances.
QueryIdle ==
    /\ group_index = << >>
    /\ gc2 = NoGC2
    /\ shapes = NoShapes
    /\ CallerIdle

\* No rupture under query, and no call of the factory.
GeomIdle ==
    /\ fixed = << << >>, << >> >>
    /\ quadrilaterals = << >>
    /\ site = Pt(0, 0, 0)
    /\ rjb = NoDist
    /\ rrup = NoDist
    /\ QueryIdle

Pending == [kind |-> "pending", exc |-> NoExc, rupt |-> NoRupture]
Returned(r) == [kind |-> "returned", exc |-> NoExc, rupt |-> r]
\* An exception leaves the call.  Inside the text path the bare except turns
\* every exception into Exception("Unknown rupture file format.").
Raised(e) ==
    [kind |-> "raised",
     exc |-> IF inText THEN "UnknownFormat" ELSE e,
     rupt |-> NoRupture]

Finish(o) ==
    /\ outcome' = o
    /\ pc' = "done"

\* The else branch of get_rupture: no file.
get_rupture_any_origin(o) == Returned(PointRuptureInit(o))

get_rupture_no_file(o) ==
    IF o = "None" THEN Raised("OriginRequired")
    ELSE Returned(PointRuptureInit(o))

\* get_rupture(origin, file) with file None.
GetRupturePoint ==
    /\ pc = "get_rupture"
    /\ file = NoFile
    /\ Finish(get_rupture_no_file(origin))
    /\ UNCHANGED << entry, origin, file, d, inText, valid_quads >>
    /\ UNCHANGED << geomVars, queryVars >>

\* get_rupture: the file decodes as JSON; json_to_rupture runs on it.
GetRuptureJson ==
    /\ pc = "get_rupture"
    /\ file # NoFile
    /\ JsonDecodes(file)
    /\ d' = file.json
    /\ pc' = "json_to_rupture"
    /\ UNCHANGED << entry, origin, file, inText, valid_quads, outcome >>
    /\ UNCHANGED << geomVars, queryVars >>

\* get_rupture: JSONDecodeError; the text path is tried.
GetRuptureText ==
    /\ pc = "get_rupture"
    /\ file # NoFile
    /\ ~JsonDecodes(file)
    /\ inText' = TRUE
    /\ pc' = "text_to_json"
    /\ UNCHANGED << entry, origin, file, d, valid_quads, outcome >>
    /\ UNCHANGED << geomVars, queryVars >>

TextToJson ==
    /\ pc = "text_to_json"
    /\ LET r == text_to_json(file)
       IN  IF r.exc # NoExc
           THEN Finish(Raised(r.exc)) /\ UNCHANGED d
           ELSE d' = r.val /\ pc' = "json_to_rupture" /\ UNCHANGED outcome
    /\ UNCHANGED << entry, origin, file, inText, valid_quads >>
    /\ UNCHANGED << geomVars, queryVars >>

\* json_to_rupture: validate_json(d).
ValidateJson ==
    /\ pc = "json_to_rupture"
    /\ LET e == validate_json(d)
       IN  IF e # NoExc
           THEN Finish(Raised(e))
           ELSE pc' = "is_quadrupture_class" /\ UNCHANGED outcome
    /\ UNCHANGED << entry, origin, file, d, inText, valid_quads >>
    /\ UNCHANGED << geomVars, queryVars >>

\* json_to_rupture: valid_quads = is_quadrupture_class(d).
IsQuadruptureClass ==
    /\ pc = "is_quadrupture_class"
    /\ LET r == is_quadrupture_class(d)
       IN  IF r.exc # NoExc
           THEN Finish(Raised(r.exc)) /\ UNCHANGED valid_quads
           ELSE valid_quads' = r.val /\ pc' = "construct" /\ UNCHANGED outcome
    /\ UNCHANGED << entry, origin, file, d, inText >>
    /\ UNCHANGED << geomVars, queryVars >>

\* QuadRupture(d, origin), from json_to_rupture or called directly.
NewQuadRupture ==
    /\ \/ pc = "construct" /\ valid_quads
       \/ pc = "QuadRupture"
    /\ Finish(Returned(QuadRuptureInit(d, origin)))
    /\ UNCHANGED << entry, origin, file, d, inText, valid_quads >>
    /\ UNCHANGED << geomVars, queryVars >>

\* EdgeRupture(d, origin, mesh_dx), from json_to_rupture.
NewEdgeRupture ==
    /\ pc = "construct"
    /\ ~valid_quads
    /\ Finish(Returned(EdgeRuptureInit(d, origin)))
    /\ UNCHANGED << entry, origin, file, d, inText, valid_quads >>
    /\ UNCHANGED << geomVars, queryVars >>

\* get_rupture on every origin and file: no file, a JSON document with a bad
\* header or with any rings of the files, or a text of any lines.
Init ==
    /\ entry = "get_rupture"
    /\ pc = entry
    /\ origin \in Origins
    /\ \/ file = NoFile
       \/ \E fm \in Forms, dd \in BadHeaders : file = JsonFile(fm, dd)
       \/ \E fm \in Forms, ns \in Shapes(MaxPairs, MaxRings) :
            \E kinds \in [1 .. Len(ns) -> TopKinds], tails \in [1 .. Len(ns) -> Tails] :
                file = JsonFile(fm, GeoJSON(FilePolygons(ns, kinds, tails), << >>))
       \/ \E fm \in Forms, n \in 0 .. MaxLines :
            \E ll \in [1 .. n -> TextLine] : file = TextFile(fm, ll)
    /\ d = NoDict
    /\ inText = FALSE
    /\ valid_quads = FALSE
    /\ outcome = Pending
    /\ GeomIdle

Next ==
    \/ GetRupturePoint
    \/ GetRuptureJson
    \/ GetRuptureText
    \/ TextToJson
    \/ ValidateJson
    \/ IsQuadruptureClass
    \/ NewQuadRupture
    \/ NewEdgeRupture

Spec == Init /\ [][Next]_vars

\* json_to_rupture(d, origin) and QuadRupture(d, origin) on every dictionary
\* of closed rings with depths on the grid.
InitJson ==
    /\ entry \in {"json_to_rupture", "QuadRupture"}
    /\ pc = entry
    /\ origin = "origin"
    /\ file = NoFile
    /\ \E ns \in Shapes(MaxPairs, MaxRings) :
         \E tops \in Profiles(SumTo(ns, Len(ns))), bots \in Profiles(SumTo(ns, Len(ns))) :
            d = GeoJSON(GridPolygons(ns, tops, bots), << >>)
    /\ inText = FALSE
    /\ valid_quads = FALSE
    /\ outcome = Pending
    /\ GeomIdle

NextJson ==
    \/ ValidateJson
    \/ IsQuadruptureClass
    \/ NewQuadRupture
    \/ NewEdgeRupture

SpecJson == InitJson /\ [][NextJson]_vars

\* ------------------------------------------------ the strike fix and the queries
FactoryIdle ==
    /\ entry = "none"
    /\ pc = "done"
    /\ origin = "origin"
    /\ file = NoFile
    /\ d = NoDict
    /\ inText = FALSE
    /\ valid_quads = FALSE
    /\ outcome = Pending

\* The quad with top edge from P0 along s and bottom edge from P0 + t along
\* m * s: level edges in one plane.
ParQuad(P0, s, t, m) ==
    << P0, VAdd(P0, s), VAdd(VAdd(P0, t), VScale(s, m)), VAdd(P0, t) >>

Last(h) == h[Len(h)]

\* _fixStrikeDirection(quad) on the last result, for the quad (k = 1) or for
\* its reverse (k = 2); twice at most.
FixStrikeDirection(k) ==
    /\ Len(fixed[k]) \in 1 .. 2
    /\ fixed' = [fixed EXCEPT ![k] = Append(@, fixStrikeDirection(Last(@)))]
    /\ UNCHANGED << quadrilaterals, site, rjb, rrup >>
    /\ UNCHANGED << factoryVars, queryVars >>

\* reverse_quad(q) of the quad given.
ReverseQuad ==
    /\ fixed[2] = << >>
    /\ fixed' = [fixed EXCEPT ![2] = << reverse_quad(fixed[1][1]) >>]
    /\ UNCHANGED << quadrilaterals, site, rjb, rrup >>
    /\ UNCHANGED << factoryVars, queryVars >>

\* Every quad with level edges in one plane and an area: the top edge along
\* any horizontal s, the bottom edge displaced by any t that does not rise,
\* of the same length or twice as long.
InitStrike ==
    /\ FactoryIdle
    /\ \E sx, sy, tx, ty \in -MaxExtent .. MaxExtent, tz \in 0 .. MaxDepth, m \in 1 .. 2 :
         LET s == Pt(sx, sy, 0)
             t == Pt(tx, ty, tz)
         IN  /\ VDot(VCross(s, t), VCross(s, t)) > 0
             /\ fixed = << << ParQuad(Pt(0, 0, 0), s, t, m) >>, << >> >>
    /\ quadrilaterals = << >>
    /\ site = Pt(0, 0, 0)
    /\ rjb = NoDist
    /\ rrup = NoDist
    /\ QueryIdle

NextStrike ==
    \/ ReverseQuad
    \/ \E k \in 1 .. 2 : FixStrikeDirection(k)

SpecStrike == InitStrike /\ [][NextStrike]_vars

\* computeRjb(lon, lat, depth) at the site.
ComputeRjb ==
    /\ quadrilaterals # << >>
    /\ rjb = NoDist
    /\ \E nan_sign \in BOOLEAN : rjb' = computeRjb(quadrilaterals, site, nan_sign)
    /\ UNCHANGED << fixed, quadrilaterals, site, rrup >>
    /\ UNCHANGED << factoryVars, queryVars >>

\* computeRrup(lon, lat, depth) at the site.
ComputeRrup ==
    /\ quadrilaterals # << >>
    /\ rrup = NoDist
    /\ rrup' = computeRrup(quadrilaterals, site)
    /\ UNCHANGED << fixed, quadrilaterals, site, rjb >>
    /\ UNCHANGED << factoryVars, queryVars >>

\* The quad of place i along the strike, as the builder stores it: top edge of
\* length HStep at depth z0, the bottom edge W across and D deeper.
PlacedQuad(i, z0, W, D) ==
    fixStrikeDirection(ParQuad(Pt((i - 1) * HStep, 0, z0), Pt(HStep, 0, 0),
                               Pt(0, W, D), 1))

\* Sites off every edge line of the footprints: before, between and beyond
\* the quads, at the surface or at depth.
SiteXs == { (k - 1) * HStep - 1 : k \in 1 .. (MaxQuads + 2) }
SiteYs == { -1, 1, HStep + 1 }

\* A rupture of one to MaxQuads quads, vertical or dipping, and a site.
InitDist ==
    /\ FactoryIdle
    /\ fixed = << << >>, << >> >>
    /\ \E n \in 1 .. MaxQuads :
         \E z0 \in [1 .. n -> 0 .. MaxDepth], W \in [1 .. n -> {0, HStep}],
            D \in [1 .. n -> 0 .. MaxDepth] :
            /\ \A i \in 1 .. n : W[i] + D[i] > 0
            /\ quadrilaterals = [i \in 1 .. n |-> PlacedQuad(i, z0[i], W[i], D[i])]
    /\ \E x \in SiteXs, y \in SiteYs, dep \in 0 .. MaxDepth : site = Pt(x, y, dep)
    /\ rjb = NoDist
    /\ rrup = NoDist
    /\ QueryIdle

NextDist ==
    \/ ComputeRjb
    \/ ComputeRrup

SpecDist == InitDist /\ [][NextDist]_vars

\* ------------------------------------------------------------- the GC2 query
\* computeGC2(lon, lat, depth) at the site: on quadlist, the list that
\* getQuadrilaterals gives, whose points it moves to the surface.
ComputeGC2 ==
    /\ quadrilaterals # << >>
    /\ gc2 = NoGC2
    /\ LET quadlist == getQuadrilaterals(quadrilaterals)
       IN  \E r \in {computeGC2(quadlist.val, getGroupIndex(group_index).val, site)} :
              /\ gc2' = r
              /\ quadrilaterals' = IF quadlist.alias THEN r.quadlist
                                    ELSE quadrilaterals
    /\ UNCHANGED << group_index, held, answers, shapes, utilVars >>
    /\ UNCHANGED << fixed, site, rjb, rrup >>
    /\ UNCHANGED factoryVars

\* The traces of the model lie on the line y = 0: trace g starts at the slot
\* x0 and runs over nq quads of HStep km each to the east (dir = 1) or to the
\* west (dir = -1).
Slots == 0 .. (MaxQuads + MaxRings)

\* The quad j of a trace as the builder stores it: the top edge at the
\* surface, the bottom edge right below it (a vertical quad passes the strike
\* fix in either direction).
TraceQuad(x0, dir, j) ==
    ParQuad(Pt((x0 + dir * (j - 1)) * HStep * M_PER_KM, 0, 0),
            Pt(dir * HStep * M_PER_KM, 0, 0), Pt(0, 0, 1), 1)

\* The slots a trace covers, ends included.
TraceSpan(x0, dir, nq) ==
    IF dir = 1 THEN x0 .. (x0 + nq) ELSE (x0 - nq) .. x0

\* The quads of the traces, trace after trace, and their group indices.
RECURSIVE TraceQuads(_, _, _, _)
TraceQuads(x0, dir, nq, g) ==
    IF g > Len(nq) THEN << >>
    ELSE [j \in 1 .. nq[g] |-> TraceQuad(x0[g], dir[g], j)]
         \o TraceQuads(x0, dir, nq, g + 1)

RECURSIVE TraceGroups(_, _)
TraceGroups(nq, g) ==
    IF g > Len(nq) THEN << >>
    ELSE Repeat(g - 1, nq[g]) \o TraceGroups(nq, g + 1)

\* Sites on the line of the traces, a km apart: at the vertices, between them
\* and beyond them.
TraceSites == { k * M_PER_KM : k \in -1 .. (MaxQuads * HStep + 1) }

\* A rupture of one to MaxRings disjoint traces, each a fixed point of the
\* strike fix, and a site.
InitGC2 ==
    /\ FactoryIdle
    /\ fixed = << << >>, << >> >>
    /\ \E n \in 1 .. MaxRings :
         \E nq \in [1 .. n -> 1 .. MaxQuads], x0 \in [1 .. n -> Slots],
            dir \in [1 .. n -> {-1, 1}] :
            /\ \A g, h \in 1 .. n :
                 g < h => TraceSpan(x0[g], dir[g], nq[g])
                            \cap TraceSpan(x0[h], dir[h], nq[h]) = {}
            /\ \A g \in 1 .. n :
                 LET q == TraceQuad(x0[g], dir[g], 1)
                 IN  fixStrikeDirection(q) = q
            /\ quadrilaterals = TraceQuads(x0, dir, nq, 1)
            /\ group_index = TraceGroups(nq, 1)
    /\ \E x \in TraceSites : site = Pt(x, 0, 0)
    /\ rjb = NoDist
    /\ rrup = NoDist
    /\ gc2 = NoGC2
    /\ shapes = NoShapes
    /\ CallerIdle

NextGC2 ==
    \/ ComputeGC2

SpecGC2 == InitGC2 /\ [][NextGC2]_vars

\* ------------------------------------------------- the caller of a rupture
\* The rupture at hand: the QuadRupture that the constructor returned, or
\* the one under the queries.
AtHand ==
    IF outcome.kind = "returned" /\ outcome.rupt.cls = "QuadRupture"
    THEN [quads |-> outcome.rupt.quads, group_index |-> outcome.rupt.group_index,
          built |-> TRUE]
    ELSE [quads |-> quadrilaterals, group_index |-> group_index,
          built |-> quadrilaterals # << >>]

Answer(a, v) ==
    /\ AtHand.built
    /\ answers[a] = NoAnswer
    /\ answers' = [answers EXCEPT ![a] = [val |-> v]]
    /\ UNCHANGED << group_index, gc2, held, shapes, utilVars >>
    /\ UNCHANGED << factoryVars, geomVars >>

GetNumGroups == Answer("getNumGroups", getNumGroups(AtHand.group_index))
GetNumQuads == Answer("getNumQuads", getNumQuads(AtHand.quads))
GetArea == Answer("getArea", getArea(AtHand.quads, 1))
GetIndividualWidths ==
    Answer("getIndividualWidths", getIndividualWidths(AtHand.quads))
GetIndividualTopLengths ==
    Answer("getIndividualTopLengths", getIndividualTopLengths(AtHand.quads))

\* The caller calls getQuadrilaterals() or _getGroupIndex() and keeps the list.
Hold(h) ==
    /\ quadrilaterals # << >>
    /\ held.of = "none"
    /\ held' = [of |-> h.of, alias |-> h.alias, val |-> h.val, changed |-> FALSE]
    /\ UNCHANGED << group_index, gc2, answers, shapes, utilVars >>
    /\ UNCHANGED << factoryVars, geomVars >>

GetQuadrilaterals == Hold(getQuadrilaterals(quadrilaterals))
GetGroupIndex == Hold(getGroupIndex(group_index))

\* The caller changes the list it holds: it moves the first point of the first
\* quad a step down, or it raises the first group index by one.  The list of
\* the rupture changes with it where the caller holds that list itself.
Mutated(h) ==
    IF h.of = "quads" THEN [h.val EXCEPT ![1][1].z = @ + 1]
    ELSE [h.val EXCEPT ![1] = @ + 1]

MutateHeld ==
    /\ held.of # "none"
    /\ ~held.changed
    /\ held' = [held EXCEPT !.val = Mutated(held), !.changed = TRUE]
    /\ quadrilaterals' = IF held.alias /\ held.of = "quads" THEN Mutated(held)
                         ELSE quadrilaterals
    /\ group_index' = IF held.alias /\ held.of = "group" THEN Mutated(held)
                      ELSE group_index
    /\ UNCHANGED << gc2, answers, shapes, utilVars >>
    /\ UNCHANGED << fixed, site, rjb, rrup >>
    /\ UNCHANGED factoryVars

\* The quad of group g as the builder stores it: a vertical quad with its top
\* edge of HStep m on the line y = 0 at the depth z0, to the east or to the
\* west.
CallerQuad(g, dir, z0) ==
    ParQuad(Pt((2 * g - 1) * HStep, 0, z0), Pt(dir * HStep, 0, 0), Pt(0, 0, 1), 1)

\* A rupture of one to MaxRings groups of one quad, and a site on the line of
\* the top edges, before the rupture or within it.
InitCaller ==
    /\ FactoryIdle
    /\ fixed = << << >>, << >> >>
    /\ \E n \in 1 .. MaxRings :
         \E dir \in [1 .. n -> {-1, 1}], z0 \in 0 .. MaxDepth :
            /\ quadrilaterals = [g \in 1 .. n |-> CallerQuad(g, dir[g], z0)]
            /\ \A g \in 1 .. n :
                 fixStrikeDirection(quadrilaterals[g]) = quadrilaterals[g]
            /\ group_index = [g \in 1 .. n |-> g - 1]
    /\ \E x \in {-1, HStep + 1} : site = Pt(x, 0, 0)
    /\ rjb = NoDist
    /\ rrup = NoDist
    /\ gc2 = NoGC2
    /\ shapes = NoShapes
    /\ CallerIdle

NextCaller ==
    \/ ComputeRjb
    \/ ComputeRrup
    \/ ComputeGC2
    \/ GetQuadrilaterals
    \/ GetGroupIndex
    \/ MutateHeld
    \/ GetArea
    \/ GetIndividualWidths
    \/ GetIndividualTopLengths

SpecCaller == InitCaller /\ [][NextCaller]_vars

\* json_to_rupture(d, origin) and QuadRupture(d, origin) on the closed rings
\* of every shape, the shortest included, with the top edges of the files, and
\* the counts of the rupture built.
InitCount ==
    /\ entry \in {"json_to_rupture", "QuadRupture"}
    /\ pc = entry
    /\ origin = "origin"
    /\ file = NoFile
    /\ \E ns \in Shapes(MaxPairs, MaxRings) :
         \E kinds \in [1 .. Len(ns) -> TopKinds] :
            d = GeoJSON(FilePolygons(ns, kinds, [i \in 1 .. Len(ns) |-> "closed"]),
                        << >>)
    /\ inText = FALSE
    /\ valid_quads = FALSE
    /\ outcome = Pending
    /\ GeomIdle

NextCount ==
    \/ ValidateJson
    \/ IsQuadruptureClass
    \/ NewQuadRupture
    \/ NewEdgeRupture
    \/ GetNumGroups
    \/ GetNumQuads

SpecCount == InitCount /\ [][NextCount]_vars

\* ------------------------------------------------- the outline of a rupture
Lats ==
    Answer("lats", lats(getQuadrilaterals(AtHand.quads).val,
                        getGroupIndex(AtHand.group_index).val))

Lons ==
    Answer("lons", lons(getQuadrilaterals(AtHand.quads).val,
                        getGroupIndex(AtHand.group_index).val))

\* The quad j of a group as the builder stores it: the top edge of HStep m on
\* the line y = 0 at the surface, from the slot x0 on, and the bottom edge a
\* step down, off the line by dip.
OutlineQuad(x0, dir, dip, j) ==
    ParQuad(Pt((x0 + dir * (j - 1)) * HStep, 0, 0),
            Pt(dir * HStep, 0, 0), Pt(0, dip, 1), 1)

RECURSIVE OutlineQuads(_, _, _, _, _)
OutlineQuads(x0, dir, dip, nq, g) ==
    IF g > Len(nq) THEN << >>
    ELSE [j \in 1 .. nq[g] |-> OutlineQuad(x0[g], dir[g], dip[g], j)]
         \o OutlineQuads(x0, dir, dip, nq, g + 1)

\* A rupture of one to MaxRings groups of one to MaxQuads quads each, every
\* quad a fixed point of the strike fix, on slots of their own.
InitOutline ==
    /\ FactoryIdle
    /\ fixed = << << >>, << >> >>
    /\ \E n \in 1 .. MaxRings :
         \E nq \in [1 .. n -> 1 .. MaxQuads], x0 \in [1 .. n -> Slots],
            dir \in [1 .. n -> {-1, 1}], dip \in [1 .. n -> {-HStep, HStep}] :
            /\ \A g, h \in 1 .. n :
                 g < h => TraceSpan(x0[g], dir[g], nq[g])
                            \cap TraceSpan(x0[h], dir[h], nq[h]) = {}
            /\ \A g \in 1 .. n :
                 LET q == OutlineQuad(x0[g], dir[g], dip[g], 1)
                 IN  fixStrikeDirection(q) = q
            /\ quadrilaterals = OutlineQuads(x0, dir, dip, nq, 1)
            /\ group_index = TraceGroups(nq, 1)
    /\ site = Pt(0, 0, 0)
    /\ rjb = NoDist
    /\ rrup = NoDist
    /\ gc2 = NoGC2
    /\ shapes = NoShapes
    /\ CallerIdle

NextOutline ==
    \/ Lats
    \/ Lons

SpecOutline == InitOutline /\ [][NextOutline]_vars

\* ------------------------------------------------- utils.containers
\* The HDF file of a container is the list of its items [type, name, val], of
\* type "dictionary", "string" or "imt".  The base class (GridHDFContainer)
\* lists the names of a type, reads an item (LookupError when there is none),
\* drops it, and stores it; h5py refuses a name that is taken (ValueError).
MaxCalls == 2

PyNone == [none |-> TRUE]
Ok(h) == [exc |-> NoExc, h |-> h]
Fail(e, h) == [exc |-> e, h |-> h]

getNames(h, type) ==
    { h.groups[i].name : i \in { k \in 1 .. Len(h.groups) : h.groups[k].type = type } }

getDictionaries(h) == getNames(h, "dictionary")
getStrings(h) == getNames(h, "string")

getItem(h, type, name) ==
    LET at == { i \in 1 .. Len(h.groups) :
                  h.groups[i].type = type /\ h.groups[i].name = name }
    IN  IF at = {} THEN [exc |-> "LookupError"]
        ELSE [exc |-> NoExc, val |-> h.groups[CHOOSE i \in at : TRUE].val]

dropItem(h, type, name) ==
    [groups |-> SelectSeq(h.groups, LAMBDA g : ~(g.type = type /\ g.name = name))]

setItem(h, type, name, val) ==
    IF name \in getNames(h, type) THEN Fail("ValueError", h)
    ELSE Ok([groups |-> Append(h.groups, [type |-> type, name |-> name, val |-> val])])

\* "if name in self.getX(): self.dropX(name)" and then "self.setX(name, val)".
setItem_no_drop(h, type, name, val) == setItem(h, type, name, val)

replaceItem(h, type, name, val) ==
    setItem(IF name \in getNames(h, type) THEN dropItem(h, type, name) ELSE h,
            type, name, val)

\* InputContainer.setConfig(config)
setConfig(h, config) == replaceItem(h, "dictionary", "config", config)

\* read_event_file(event_file): the dictionary of the event.
read_event_file(event_file) == event_file.dict

\* InputContainer.setEvent(event_file).  The product code is taken from the
\* directory of the file when the file has none, and is compared with the one
\* of the file only when the file has none.
setEvent(h, event_file) ==
    LET event_dict == read_event_file(event_file)
        from_path == ~event_dict.has_productcode
    IN  IF from_path /\ Len(event_file.path_parts) < 2 THEN Fail("IndexError", h)
        ELSE IF from_path /\ event_dict.has_productcode
                /\ PyIdx(event_file.path_parts, -2) # event_dict.productcode
        THEN Fail("KeyError", h)
        ELSE replaceItem(h, "dictionary", "event", event_dict)

\* json.dumps and json.loads of a rupture dictionary: the text and back.
json_dumps(dd) == [json |-> dd]
json_loads(s) == s.json

\* InputContainer.setRupture(rupture_file)
setRupture(h, rupture_file) ==
    LET rupture_data == IF JsonDecodes(rupture_file)
                        THEN [exc |-> NoExc, val |-> rupture_file.json]
                        ELSE text_to_json(rupture_file)
    IN  IF rupture_data.exc # NoExc THEN Fail(rupture_data.exc, h)
        ELSE replaceItem(h, "string", "rupture", json_dumps(rupture_data.val))

\* StationList.loadFromXML(datafiles).dumpToSQL(): the SQL of the stations of
\* the files; loadFromSQL reads it back.
dumpToSQL(station) == [sql |-> station]
loadFromSQL(station_sql) == station_sql.sql

\* InputContainer.setStationData(datafiles)
setStationData(h, datafiles) ==
    replaceItem(h, "string", "station_data", dumpToSQL(<< datafiles >>))

\* InputContainer.addStationData(datafiles)
addStationData(h, datafiles) ==
    LET station_sql == getItem(h, "string", "station_data")
    IN  IF station_sql.exc # NoExc THEN Fail(station_sql.exc, h)
        ELSE replaceItem(h, "string", "station_data",
                         dumpToSQL(Append(loadFromSQL(station_sql.val), datafiles)))

\* InputContainer.setVersionHistory(history_dict)
setVersionHistory(h, history_dict) ==
    replaceItem(h, "dictionary", "version_history", history_dict)

\* The getters: [exc, val].
getConfig(h) ==
    IF "config" \in getDictionaries(h) THEN getItem(h, "dictionary", "config")
    ELSE [exc |-> NoExc, val |-> PyNone]

getOrigin(h) ==
    LET event_dict == getItem(h, "dictionary", "event")
    IN  IF event_dict.exc # NoExc THEN event_dict
        ELSE [exc |-> NoExc, val |-> [Origin |-> event_dict.val]]

\* json_to_rupture(d, origin) as one call.
json_to_rupture(dd, o) ==
    LET e == validate_json(dd)
        r == is_quadrupture_class(dd)
    IN  IF e # NoExc THEN [exc |-> e]
        ELSE IF r.exc # NoExc THEN [exc |-> r.exc]
        ELSE [exc |-> NoExc,
              val |-> IF r.val THEN QuadRuptureInit(dd, o) ELSE EdgeRuptureInit(dd, o)]

getRupture(h) ==
    LET o == getOrigin(h)
    IN  IF o.exc # NoExc THEN o
        ELSE IF "rupture" \in getStrings(h)
        THEN json_to_rupture(json_loads(getItem(h, "string", "rupture").val), o.val)
        ELSE [exc |-> NoExc, val |-> PointRuptureInit(o.val)]

getStationList(h) ==
    IF "station_data" \in getStrings(h)
    THEN [exc |-> NoExc,
          val |-> [StationList |-> loadFromSQL(getItem(h, "string", "station_data").val)]]
    ELSE [exc |-> NoExc, val |-> PyNone]

\* getVersionHistory() without the test for the item.
getVersionHistory_unguarded(h) == getItem(h, "dictionary", "version_history")

getVersionHistory(h) ==
    IF "version_history" \in getDictionaries(h)
    THEN getItem(h, "dictionary", "version_history")
    ELSE [exc |-> NoExc, val |-> PyNone]

\* The inputs of the container.
Configs == { [config |-> k] : k \in 1 .. 2 }
EventFiles ==
    { [dict |-> [id |-> k, has_productcode |-> FALSE, productcode |-> "none"],
       path_parts |-> << "data", "us2017abcd", "current" >>] : k \in 1 .. 2 }
TextRing == RingOf(Flat(2, 0), Flat(2, 2 * DEPTH_TOL))
RuptureFiles ==
    { JsonFile("path", GeoJSON(<< GoodRing >>, << >>)),
      TextFile("path", [k \in 1 .. Len(TextRing) |->
                          [kind |-> "vertex",
                           parts |-> << TextRing[k].y, TextRing[k].x, TextRing[k].z >>]]) }
DataFiles == {"stations_1.xml", "stations_2.xml"}
Histories == { [history |-> k] : k \in 1 .. 2 }

Setters == {"setConfig", "setEvent", "setRupture", "setStationData",
            "addStationData", "setVersionHistory"}
Getters == {"getConfig", "getOrigin", "getRupture", "getStationList",
            "getVersionHistory"}

\* A call of a setter: the file after it, the call in the list, the reply.
Set(op, arg, r) ==
    /\ Cardinality({ i \in 1 .. Len(calls) : calls[i].by = "caller" }) < MaxCalls
    /\ hdfobj' = r.h
    /\ calls' = Append(calls, [op |-> op, arg |-> arg, exc |-> r.exc,
                               by |-> "caller"])
    /\ reply' = [op |-> op, exc |-> r.exc, val |-> PyNone]
    /\ UNCHANGED << tables, imt >>
    /\ UNCHANGED << group_index, gc2, held, answers, shapes >>
    /\ UNCHANGED << factoryVars, geomVars >>

\* A call of a getter: the reply.
Get(op, r) ==
    /\ reply' = [op |-> op, exc |-> r.exc,
                 val |-> IF r.exc = NoExc THEN r.val ELSE PyNone]
    /\ UNCHANGED << hdfobj, tables, imt, calls >>
    /\ UNCHANGED << group_index, gc2, held, answers, shapes >>
    /\ UNCHANGED << factoryVars, geomVars >>

SetConfig == \E c \in Configs : Set("setConfig", c, setConfig(hdfobj, c))
SetEvent == \E f \in EventFiles : Set("setEvent", f, setEvent(hdfobj, f))
SetRupture == \E f \in RuptureFiles : Set("setRupture", f, setRupture(hdfobj, f))
SetStationData ==
    \E f \in DataFiles : Set("setStationData", f, setStationData(hdfobj, f))
AddStationData ==
    \E f \in DataFiles : Set("addStationData", f, addStationData(hdfobj, f))
SetVersionHistory ==
    \E v \in Histories : Set("setVersionHistory", v, setVersionHistory(hdfobj, v))

GetConfig == Get("getConfig", getConfig(hdfobj))
GetOrigin == Get("getOrigin", getOrigin(hdfobj))
GetRupture == Get("getRupture", getRupture(hdfobj))
GetStationList == Get("getStationList", getStationList(hdfobj))
GetVersionHistory == Get("getVersionHistory", getVersionHistory(hdfobj))

\* InputContainer.createFromInput(filename, config, eventfile, ...): the file
\* after the setters it calls; an argument that is None is left out.
RECURSIVE createFromInput(_, _, _)
createFromInput(h, args, k) ==
    IF k > Len(args) THEN Ok(h)
    ELSE LET a == args[k]
             r == CASE a.op = "setConfig" -> setConfig(h, a.arg)
                    [] a.op = "setEvent" -> setEvent(h, a.arg)
                    [] a.op = "setRupture" -> setRupture(h, a.arg)
                    [] a.op = "setStationData" -> setStationData(h, a.arg)
                    [] OTHER -> setVersionHistory(h, a.arg)
         IN  IF r.exc # NoExc THEN r ELSE createFromInput(r.h, args, k + 1)

Arg(op, arg) == [op |-> op, arg |-> arg, exc |-> NoExc, by |-> "createFromInput"]

\* An InputContainer right after InputContainer.create(filename), or right
\* after createFromInput with or without each of the optional arguments.
InitInput ==
    /\ FactoryIdle
    /\ fixed = << << >>, << >> >>
    /\ quadrilaterals = << >>
    /\ site = Pt(0, 0, 0)
    /\ rjb = NoDist
    /\ rrup = NoDist
    /\ group_index = << >>
    /\ gc2 = NoGC2
    /\ shapes = NoShapes
    /\ held = [of |-> "none"]
    /\ answers = [a \in Accessors |-> NoAnswer]
    /\ tables = NoTables
    /\ imt = << >>
    /\ reply = NoReply
    /\ \/ hdfobj = EmptyHDF /\ calls = << >>
       \/ \E opt \in SUBSET {"r", "s", "v"} :
            \E c \in {[config |-> 1]}, e \in {CHOOSE e \in EventFiles : e.dict.id = 1},
               f \in RuptureFiles, s \in {"stations_1.xml"}, v \in {[history |-> 1]} :
               /\ calls = << Arg("setConfig", c), Arg("setEvent", e) >>
                           \o (IF "r" \in opt THEN << Arg("setRupture", f) >> ELSE << >>)
                           \o (IF "s" \in opt THEN << Arg("setStationData", s) >> ELSE << >>)
                           \o (IF "v" \in opt THEN << Arg("setVersionHistory", v) >>
                               ELSE << >>)
               /\ hdfobj = createFromInput(EmptyHDF, calls, 1).h

NextInput ==
    \/ SetConfig
    \/ SetEvent
    \/ SetRupture
    \/ SetStationData
    \/ AddStationData
    \/ SetVersionHistory
    \/ GetConfig
    \/ GetOrigin
    \/ GetRupture
    \/ GetStationList
    \/ GetVersionHistory

SpecInput == InitInput /\ [][NextInput]_vars

\* ------------------------------------------------- OutputContainer
\* Python's str.startswith, str.find (the lowest index, -1 when there is none)
\* and str.replace (every occurrence, left to right, without overlap).
startswith(s, prefix) ==
    Len(s) >= Len(prefix) /\ SubSeq(s, 1, Len(prefix)) = prefix

str_find(s, sub) ==
    LET at == { i \in 0 .. (Len(s) - Len(sub)) : SubSeq(s, i + 1, i + Len(sub)) = sub }
    IN  IF at = {} THEN -1 ELSE CHOOSE i \in at : \A j \in at : i <= j

RECURSIVE str_replace(_, _, _)
str_replace(s, old, new) ==
    IF str_find(s, old) = -1 THEN s
    ELSE SubSeq(s, 1, str_find(s, old)) \o new
         \o str_replace(SubSeq(s, str_find(s, old) + Len(old) + 1, Len(s)), old, new)

\* _get_type_list(hdfobj, data_type): of the groups named '__<data_type>_..__',
\* what stands for the dots, in the order of the file.
get_type_list(h, data_type) ==
    LET prefix == "__" \o data_type \o "_"
        named == SelectSeq(h.groups, LAMBDA g : startswith(g.name, prefix))
    IN  [k \in 1 .. Len(named) |->
            SubSeq(named[k].name, Len(prefix) + 1, Len(named[k].name) - 2)]

group_name(imt_name, component) == "__imt_" \o imt_name \o "_" \o component \o "__"

\* OutputContainer.setIMT: create_group refuses a name that is taken; the two
\* datasets hold the data, with the metadata and the geodict as attributes.
setIMT(h, imt_name, component, grids) ==
    IF \E i \in 1 .. Len(h.groups) : h.groups[i].name = group_name(imt_name, component)
    THEN Fail("ValueError", h)
    ELSE Ok([groups |-> Append(h.groups,
               [type |-> "imt", name |-> group_name(imt_name, component),
                val |-> [mean_dset |-> [data |-> grids.mean.data,
                                        attrs |-> [geo |-> grids.mean.geodict,
                                                   meta |-> grids.mean_metadata]],
                         std_dset |-> [data |-> grids.std.data,
                                       attrs |-> [geo |-> grids.std.geodict,
                                                  meta |-> grids.std_metadata]]]])])

\* OutputContainer.getIMT
getIMT(h, imt_name, component) ==
    LET at == { i \in 1 .. Len(h.groups) :
                  h.groups[i].name = group_name(imt_name, component) }
        imt_group == h.groups[CHOOSE i \in at : TRUE].val
    IN  IF at = {} THEN [exc |-> "LookupError"]
        ELSE [exc |-> NoExc,
              val |-> [mean |-> [data |-> imt_group.mean_dset.data,
                                 geodict |-> imt_group.mean_dset.attrs.geo],
                       mean_metadata |-> imt_group.mean_dset.attrs.meta,
                       std |-> [data |-> imt_group.std_dset.data,
                                geodict |-> imt_group.std_dset.attrs.geo],
                       std_metadata |-> imt_group.std_dset.attrs.meta]]

\* OutputContainer.getIMTs
getIMTs(h, component) ==
    LET imt_groups == get_type_list(h, "imt")
        comp_groups == SelectSeq(imt_groups, LAMBDA g : str_find(g, component) > -1)
    IN  [exc |-> NoExc,
         val |-> [k \in 1 .. Len(comp_groups) |->
                    str_replace(comp_groups[k], "_" \o component, "")]]

\* OutputContainer.getComponents
getComponents(h, imt_name) ==
    [exc |-> NoExc, val |-> get_type_list(h, "imt_" \o imt_name)]

\* OutputContainer.dropIMT: the name "component" is not defined in it.
dropIMT(h, imt_name) == Fail("NameError", h)

IMTNames == {"mmi", "pga"}
Components == {"maximum", "rotd50", "rotd5"}
GridsOf(k) ==
    [mean |-> [data |-> << k, k >>, geodict |-> "geodict"],
     mean_metadata |-> [name |-> "mean", key |-> k],
     std |-> [data |-> << 0, k >>, geodict |-> "geodict"],
     std_metadata |-> [name |-> "std", key |-> k]]
Grids == { GridsOf(k) : k \in 1 .. 2 }

SetIMT ==
    \E n \in IMTNames, c \in Components, g \in Grids :
        Set("setIMT", [imt_name |-> n, component |-> c, grids |-> g],
            setIMT(hdfobj, n, c, g))
DropIMT ==
    \E n \in IMTNames : Set("dropIMT", [imt_name |-> n], dropIMT(hdfobj, n))

\* A call of a getter with an argument: the reply and the argument.
GetOf(op, arg, r) ==
    /\ reply' = [op |-> op, arg |-> arg, exc |-> r.exc,
                 val |-> IF r.exc = NoExc THEN r.val ELSE PyNone]
    /\ UNCHANGED << hdfobj, tables, imt, calls >>
    /\ UNCHANGED << group_index, gc2, held, answers, shapes >>
    /\ UNCHANGED << factoryVars, geomVars >>

GetIMT ==
    \E n \in IMTNames, c \in Components :
        GetOf("getIMT", [imt_name |-> n, component |-> c], getIMT(hdfobj, n, c))
GetIMTs ==
    \E c \in Components : GetOf("getIMTs", [component |-> c], getIMTs(hdfobj, c))
GetComponents ==
    \E n \in IMTNames :
        GetOf("getComponents", [imt_name |-> n], getComponents(hdfobj, n))

\* An OutputContainer right after OutputContainer.create(filename).
InitOutput ==
    /\ FactoryIdle
    /\ fixed = << << >>, << >> >>
    /\ quadrilaterals = << >>
    /\ site = Pt(0, 0, 0)
    /\ rjb = NoDist
    /\ rrup = NoDist
    /\ QueryIdle

NextOutput ==
    \/ SetIMT
    \/ DropIMT
    \/ GetIMT
    \/ GetIMTs
    \/ GetComponents

SpecOutput == InitOutput /\ [][NextOutput]_vars

\* ------------------------------------------------- utils.imt_string
\* The longest digit strings, and the conversions in a row, that are tried.
MaxDigits == 2
MaxConv == 2

Char(s, i) == IF i >= 1 /\ i <= Len(s) THEN SubSeq(s, i, i) ELSE ""
IsDigit(c) == c \in {"0", "1", "2", "3", "4", "5", "6", "7", "8", "9"}

\* The number of digits in a row from position i on.
RECURSIVE DigitsFrom(_, _)
DigitsFrom(s, i) == IF IsDigit(Char(s, i)) THEN 1 + DigitsFrom(s, i + 1) ELSE 0

\* The length of the match of r"[-+]?\d*\.\d+|\d+" at position i, 0 for none.
MatchAt(s, i) ==
    LET sg == IF Char(s, i) \in {"-", "+"} THEN 1 ELSE 0
        n1 == DigitsFrom(s, i + sg)
        n2 == DigitsFrom(s, i + sg + n1 + 1)
    IN  IF Char(s, i + sg + n1) = "." /\ n2 >= 1 THEN sg + n1 + 1 + n2
        ELSE DigitsFrom(s, i)

\* re.findall(pattern, s): the matches from left to right, without overlap.
RECURSIVE re_findall(_, _)
re_findall(s, i) ==
    IF i > Len(s) THEN << >>
    ELSE IF MatchAt(s, i) > 0
    THEN << SubSeq(s, i, i + MatchAt(s, i) - 1) >> \o re_findall(s, i + MatchAt(s, i))
    ELSE re_findall(s, i + 1)

\* str.split(sep)
RECURSIVE str_split(_, _)
str_split(s, sep) ==
    IF str_find(s, sep) = -1 THEN << s >>
    ELSE << SubSeq(s, 1, str_find(s, sep)) >>
         \o str_split(SubSeq(s, str_find(s, sep) + Len(sep) + 1, Len(s)), sep)

\* oq_to_file without "if not len(integer): integer = '0'".
oq_to_file_as_split(oqimt) ==
    LET periods == re_findall(oqimt, 1)
        period == periods[1]
        parts == str_split(period, ".")
    IN  IF oqimt \in {"PGA", "PGV", "MMI"} THEN [exc |-> NoExc, val |-> oqimt]
        ELSE IF Len(periods) = 0 THEN [exc |-> "ValueError"]
        ELSE IF str_find(period, ".") < 0
        THEN [exc |-> NoExc, val |-> "PSA" \o period \o "p" \o "0"]
        ELSE [exc |-> NoExc, val |-> "PSA" \o parts[1] \o "p" \o parts[2]]

oq_to_file(oqimt) ==
    LET periods == re_findall(oqimt, 1)
        period == periods[1]
        parts == str_split(period, ".")
        integer == IF Len(parts[1]) = 0 THEN "0" ELSE parts[1]
    IN  IF oqimt \in {"PGA", "PGV", "MMI"} THEN [exc |-> NoExc, val |-> oqimt]
        ELSE IF Len(periods) = 0 THEN [exc |-> "ValueError"]
        ELSE IF str_find(period, ".") < 0
        THEN [exc |-> NoExc, val |-> "PSA" \o period \o "p" \o "0"]
        ELSE [exc |-> NoExc, val |-> "PSA" \o integer \o "p" \o parts[2]]

\* file_to_oq: the two names of the unpacking take exactly two parts.
file_to_oq(fileimt) ==
    LET parts == str_split(str_replace(fileimt, "PSA", ""), "p")
    IN  IF fileimt \in {"PGA", "PGV", "MMI"} THEN [exc |-> NoExc, val |-> fileimt]
        ELSE IF Len(parts) # 2 THEN [exc |-> "ValueError"]
        ELSE [exc |-> NoExc, val |-> "SA(" \o parts[1] \o "." \o parts[2] \o ")"]

\* The names that are converted.
DigitChars == {"0", "3", "5"}
RECURSIVE DigitStrings(_)
DigitStrings(n) ==
    IF n = 0 THEN {""}
    ELSE { t \o c : t \in DigitStrings(n - 1), c \in DigitChars }
Digits == UNION { DigitStrings(n) : n \in 1 .. MaxDigits }

CanonicalFile == { "PSA" \o a \o "p" \o b : a \in Digits, b \in Digits }
CanonicalOQ == { "SA(" \o a \o "." \o b \o ")" : a \in Digits, b \in Digits }
Plain == {"PGA", "PGV", "MMI"}
Shorthand == {"SA(3)", "SA(.5)"}
NoPeriod == {"PGD", "IA", "SA()", "SA(.)", ""}
IMTStrings == CanonicalFile \cup CanonicalOQ \cup Plain \cup Shorthand \cup NoPeriod

\* A conversion of the last result: the list of the conversions grows by one.
Convert(op, r) ==
    /\ Len(imt) <= MaxConv
    /\ imt[Len(imt)].exc = NoExc
    /\ imt' = Append(imt, [op |-> op, in |-> imt[Len(imt)].out, exc |-> r.exc,
                           out |-> IF r.exc = NoExc THEN r.val ELSE ""])
    /\ UNCHANGED << hdfobj, tables, calls, reply >>
    /\ UNCHANGED << group_index, gc2, held, answers, shapes >>
    /\ UNCHANGED << factoryVars, geomVars >>

OqToFile == Convert("oq_to_file", oq_to_file(imt[Len(imt)].out))
FileToOq == Convert("file_to_oq", file_to_oq(imt[Len(imt)].out))

InitIMT ==
    /\ FactoryIdle
    /\ fixed = << << >>, << >> >>
    /\ quadrilaterals = << >>
    /\ site = Pt(0, 0, 0)
    /\ rjb = NoDist
    /\ rrup = NoDist
    /\ group_index = << >>
    /\ gc2 = NoGC2
    /\ shapes = NoShapes
    /\ held = [of |-> "none"]
    /\ answers = [a \in Accessors |-> NoAnswer]
    /\ hdfobj = EmptyHDF
    /\ tables = NoTables
    /\ calls = << >>
    /\ reply = NoReply
    /\ \E name \in IMTStrings :
          imt = << [op |-> "input", in |-> name, exc |-> NoExc, out |-> name] >>

NextIMT ==
    \/ OqToFile
    \/ FileToOq

SpecIMT == InitIMT /\ [][NextIMT]_vars

\* ------------------------------------------------- grind.station
\* A dict is the list of its items [key, val] in the order they were added.
dict_has(dd, k) == \E i \in 1 .. Len(dd) : dd[i].key = k
dict_get(dd, k) == dd[CHOOSE i \in 1 .. Len(dd) : dd[i].key = k].val
dict_set(dd, k, v) ==
    IF dict_has(dd, k)
    THEN [i \in 1 .. Len(dd) |-> IF dd[i].key = k THEN [key |-> k, val |-> v] ELSE dd[i]]
    ELSE Append(dd, [key |-> k, val |-> v])

RECURSIVE dict_update(_, _)
dict_update(dd, other) ==
    IF other = << >> THEN dd
    ELSE dict_update(dict_set(dd, other[1].key, other[1].val), Tail(other))

\* str.lower()
UpperCase == "ABCDEFGHIJKLMNOPQRSTUVWXYZ"
LowerCase == "abcdefghijklmnopqrstuvwxyz"
RECURSIVE str_lower(_)
str_lower(s) ==
    IF s = "" THEN ""
    ELSE (IF str_find(UpperCase, Char(s, 1)) > -1
          THEN Char(LowerCase, str_find(UpperCase, Char(s, 1)) + 1)
          ELSE Char(s, 1))
         \o str_lower(SubSeq(s, 2, Len(s)))

CIIM_TUPLE == {"dyfi", "mmi", "intensity", "ciim"}
is_instrumented(netid) == IF str_lower(netid) \in CIIM_TUPLE THEN 0 ELSE 1

\* get_imt_period(imt) as str() prints it: the digits after 'psa', the last
\* of them after the point, the leading zeros of the others dropped.
RECURSIVE int_digits(_)
int_digits(t) ==
    IF t = "" THEN "0"
    ELSE IF Char(t, 1) = "0" /\ Len(t) > 1 THEN int_digits(SubSeq(t, 2, Len(t)))
    ELSE t

get_imt_period(key) ==
    LET from == str_find(key, "psa") + 4
        p == SubSeq(key, from, from + DigitsFrom(key, from) - 1)
    IN  int_digits(SubSeq(p, 1, Len(p) - 1)) \o "." \o Char(p, Len(p))

\* The key of an amplitude tag in _getGroundMotions.
imt_key(key) ==
    IF key \in {"acc", "pga"} THEN [exc |-> NoExc, val |-> "PGA"]
    ELSE IF key \in {"vel", "pgv"} THEN [exc |-> NoExc, val |-> "PGV"]
    ELSE IF str_find(key, "mmi") > -1 THEN [exc |-> NoExc, val |-> "MMI"]
    ELSE IF str_find(key, "psa") > -1
    THEN [exc |-> NoExc, val |-> "SA(" \o get_imt_period(key) \o ")"]
    ELSE [exc |-> "ValueError"]

\* StationList._getGroundMotions(comp, imt_translate): [exc, pgmdict, imtset].
RECURSIVE getGroundMotions(_, _, _)
getGroundMotions(comp, k, acc) ==
    IF k > Len(comp) THEN acc
    ELSE LET pgm == comp[k]
             key == imt_key(pgm.tag)
         IN  IF key.exc # NoExc THEN [exc |-> key.exc]
             ELSE IF ~pgm.has_value THEN getGroundMotions(comp, k + 1, acc)
             ELSE getGroundMotions(comp, k + 1,
                    [exc |-> NoExc,
                     pgmdict |-> dict_set(acc.pgmdict, key.val,
                                   [value |-> pgm.value,
                                    flag |-> IF pgm.flag # "" THEN pgm.flag ELSE "0"]),
                     imtset |-> acc.imtset \cup {key.val}])

NoMotions == [exc |-> NoExc, pgmdict |-> << >>, imtset |-> {}]

\* The loop over the components of one station: [exc, compdict, imtset].  A
\* compdict that is a tuple takes no item.
RECURSIVE filter_comps(_, _, _)
filter_comps(comps, k, acc) ==
    IF k > Len(comps) \/ acc.exc # NoExc THEN acc
    ELSE IF str_find(comps[k].name, "Intensity Questionnaire") > -1
    THEN IF acc.is_tuple THEN [acc EXCEPT !.exc = "TypeError"]
         ELSE filter_comps(comps, k + 1,
                [acc EXCEPT !.compdict = dict_set(acc.compdict, "mmi", << >>)])
    ELSE LET g == getGroundMotions(comps[k].pgms, 1, NoMotions)
             pgmdict == IF ~acc.is_tuple /\ dict_has(acc.compdict, comps[k].name)
                        THEN dict_get(acc.compdict, comps[k].name) ELSE << >>
         IN  IF g.exc # NoExc THEN [acc EXCEPT !.exc = g.exc]
             ELSE IF acc.is_tuple THEN [acc EXCEPT !.exc = "TypeError"]
             ELSE filter_comps(comps, k + 1,
                    [acc EXCEPT !.compdict = dict_set(acc.compdict, comps[k].name,
                                                      dict_update(pgmdict, g.pgmdict)),
                                !.imtset = acc.imtset \cup g.imtset])

\* StationList._filter_station(xmlfile, stationdict), from station k of the
\* file on: [exc, stationdict, imtset].  The entry of a station that is in
\* stationdict already is the tuple (attributes, compdict), which is taken
\* for the compdict.
RECURSIVE filter_station(_, _, _)
filter_station(xmlfile, k, acc) ==
    IF k > Len(xmlfile) \/ acc.exc # NoExc THEN acc
    ELSE LET station == xmlfile[k]
             netid == station.netid
             instrumented == is_instrumented(netid)
             sta_id == IF startswith(station.code, netid \o ".") THEN station.code
                       ELSE netid \o "." \o station.code
             known == dict_has(acc.stationdict, sta_id)
             c == filter_comps(station.comps, 1,
                    [exc |-> NoExc, is_tuple |-> known, compdict |-> << >>,
                     imtset |-> acc.imtset])
             mmi == IF dict_has(c.compdict, "mmi") THEN dict_get(c.compdict, "mmi")
                    ELSE << >>
         IN  IF c.exc # NoExc THEN [acc EXCEPT !.exc = c.exc]
             ELSE IF station.has_intensity /\ instrumented = 0
             THEN IF known THEN [acc EXCEPT !.exc = "TypeError"]
                  ELSE filter_station(xmlfile, k + 1,
                         [acc EXCEPT
                            !.stationdict = dict_set(acc.stationdict, sta_id,
                               [attributes |-> station, is_tuple |-> FALSE,
                                compdict |-> dict_set(c.compdict, "mmi",
                                   dict_set(mmi, "MMI",
                                      [value |-> station.intensity, flag |-> "0"]))]),
                            !.imtset = c.imtset \cup {"MMI"}])
             ELSE filter_station(xmlfile, k + 1,
                    [acc EXCEPT
                       !.stationdict = dict_set(acc.stationdict, sta_id,
                          [attributes |-> station, is_tuple |-> known,
                           compdict |-> c.compdict]),
                       !.imtset = c.imtset])

\* The first loop of addData: every file in turn into one stationdict.
RECURSIVE filter_files(_, _, _)
filter_files(xmlfiles, k, acc) ==
    IF k > Len(xmlfiles) THEN acc
    ELSE filter_files(xmlfiles, k + 1, filter_station(xmlfiles[k], 1, acc))

\* The rows of the amplitudes of one station that are not in amp_set, with
\* amp_set after them: [exc, rows, amp_set].
amp_id_of(sta_id, imtid, original_channel) ==
    << sta_id, ".", imtid, ".", original_channel >>

\* The test "amp_id in amp_set" left out.
amp_known_never(amp_id, amp_set) == FALSE

amp_known(amp_id, amp_set) == amp_id \in amp_set

getOrientation(orig_channel) ==
    IF orig_channel = "mmi" THEN "H"
    ELSE IF Char(orig_channel, Len(orig_channel)) \in {"N", "E", "Z"}
    THEN Char(orig_channel, Len(orig_channel))
    ELSE IF Char(orig_channel, Len(orig_channel)) = "K" THEN "H"
    ELSE "U"

amp_value(imt_type, imt_dict) ==
    IF imt_dict.value <= 0 THEN [amp |-> [null |-> TRUE], flag |-> "G"]
    ELSE IF imt_type = "MMI"
    THEN [amp |-> [of |-> imt_dict.value], flag |-> imt_dict.flag]
    ELSE IF imt_type = "PGV"
    THEN [amp |-> [log |-> imt_dict.value, per |-> 1], flag |-> imt_dict.flag]
    ELSE [amp |-> [log |-> imt_dict.value, per |-> 100], flag |-> imt_dict.flag]

\* The loops over the components and the amplitudes of one station.
RECURSIVE amps_of_pgms(_, _, _, _, _, _, _)
amps_of_pgms(sta_id, instrumented, original_channel, pgm_dict, imt_hash, k, acc) ==
    IF k > Len(pgm_dict) THEN acc
    ELSE LET imt_type == pgm_dict[k].key
             imtid == dict_get(imt_hash, imt_type)
             amp_id == amp_id_of(sta_id, imtid, original_channel)
             a == amp_value(imt_type, pgm_dict[k].val)
         IN  IF instrumented = 0 /\ imt_type # "MMI"
             THEN amps_of_pgms(sta_id, instrumented, original_channel, pgm_dict,
                               imt_hash, k + 1, acc)
             ELSE IF amp_known(amp_id, acc.amp_set)
             THEN amps_of_pgms(sta_id, instrumented, original_channel, pgm_dict,
                               imt_hash, k + 1, acc)
             ELSE amps_of_pgms(sta_id, instrumented, original_channel, pgm_dict,
                    imt_hash, k + 1,
                    [rows |-> Append(acc.rows,
                        [station_id |-> sta_id, imt_id |-> imtid,
                         original_channel |-> original_channel,
                         orientation |-> getOrientation(original_channel),
                         amp |-> a.amp, flag |-> a.flag]),
                     amp_set |-> acc.amp_set \cup {amp_id}])

RECURSIVE amps_of_comps(_, _, _, _, _, _)
amps_of_comps(sta_id, instrumented, comp_dict, imt_hash, k, acc) ==
    IF k > Len(comp_dict) THEN acc
    ELSE amps_of_comps(sta_id, instrumented, comp_dict, imt_hash, k + 1,
           amps_of_pgms(sta_id, instrumented, comp_dict[k].key, comp_dict[k].val,
                        imt_hash, 1, acc))

\* The loop over the stations: [exc, rows, amp_set]; the compdict that is a
\* tuple has no items().
RECURSIVE amps_of_stations(_, _, _, _)
amps_of_stations(stationdict, imt_hash, k, acc) ==
    IF k > Len(stationdict) THEN [exc |-> NoExc, rows |-> acc.rows]
    ELSE IF stationdict[k].val.is_tuple THEN [exc |-> "AttributeError", rows |-> << >>]
    ELSE amps_of_stations(stationdict, imt_hash, k + 1,
           amps_of_comps(stationdict[k].key,
                         is_instrumented(stationdict[k].val.attributes.netid),
                         stationdict[k].val.compdict, imt_hash, 1, acc))

\* StationList._loadFromDict(stationdict, imtset): the tables after it.  The
\* new IMTs are a set, inserted in the order new_imts of its iteration; the
\* ids of the rows count up.
loadFromDict(t, stationdict, imtset, new_imts) ==
    LET imt_rows == t.imt \o [k \in 1 .. Len(new_imts) |->
                           [id |-> Len(t.imt) + k, imt_type |-> new_imts[k]]]
        imt_hash == dict_update(<< >>, [k \in 1 .. Len(imt_rows) |->
                                          [key |-> imt_rows[k].imt_type, val |-> imt_rows[k].id]])
        sta_set == { t.station[k].id : k \in 1 .. Len(t.station) }
        fresh == SelectSeq(stationdict, LAMBDA e : e.key \notin sta_set)
        station_rows == [k \in 1 .. Len(fresh) |->
                           [id |-> fresh[k].key,
                            network |-> fresh[k].val.attributes.netid,
                            code |-> fresh[k].val.attributes.code,
                            instrumented |->
                               is_instrumented(fresh[k].val.attributes.netid)]]
        amp_set == { amp_id_of(t.amp[k].station_id, t.amp[k].imt_id,
                               t.amp[k].original_channel) : k \in 1 .. Len(t.amp) }
        amps == amps_of_stations(stationdict, imt_hash, 1,
                                 [rows |-> << >>, amp_set |-> amp_set])
    IN  [exc |-> amps.exc,
         t |-> [imt |-> imt_rows, station |-> t.station \o station_rows,
                amp |-> t.amp \o amps.rows]]

\* StationList.getIMTtypes()
getIMTtypes(t) == { t.imt[k].imt_type : k \in 1 .. Len(t.imt) }

\* The station files.
Pgm(tag, value, flag) == [tag |-> tag, has_value |-> TRUE, value |-> value, flag |-> flag]
StationOf(netid, code, intensity, comps) ==
    [netid |-> netid, code |-> code, has_intensity |-> intensity > 0,
     intensity |-> intensity, comps |-> comps]
XMLFiles ==
    { << StationOf("CI", "A", 0,
            << [name |-> "HNZ", pgms |-> << Pgm("pga", 5, ""), Pgm("pgv", 3, "0") >>] >>) >>,
      << StationOf("DYFI", "1", 4,
            << [name |-> "HNZ", pgms |-> << Pgm("pga", 2, "") >>] >>) >>,
      << StationOf("CI", "CI.A", 0,
            << [name |-> "HNE", pgms |-> << Pgm("acc", 0, ""), Pgm("psa03", 7, "") >>],
               [name |-> "HNZ", pgms |-> << Pgm("pga", 6, "") >>] >>) >>,
      << StationOf("CI", "B", 0, << >>), StationOf("CI", "B", 0, << >>) >> }

XMLFileLists == { << f >> : f \in XMLFiles } \cup { << f, g >> : f, g \in XMLFiles }

Orders(S) == { q \in [1 .. Cardinality(S) -> S] : \A a \in S : \E i \in DOMAIN q : q[i] = a }

EmptyTables == [imt |-> << >>, station |-> << >>, amp |-> << >>]

\* StationList.addData(xmlfiles)
AddData ==
    /\ Len(calls) < MaxCalls
    /\ \E xmlfiles \in XMLFileLists :
         \E f \in { filter_files(xmlfiles, 1,
                       [exc |-> NoExc, stationdict |-> << >>, imtset |-> {}]) } :
            IF f.exc # NoExc
            THEN /\ tables' = tables
                 /\ calls' = Append(calls, [op |-> "addData", arg |-> xmlfiles,
                                            exc |-> f.exc, by |-> "caller"])
            ELSE \E new_imts \in Orders(f.imtset \ getIMTtypes(tables)) :
                    \E r \in { loadFromDict(tables, f.stationdict, f.imtset, new_imts) } :
                       /\ tables' = r.t
                       /\ calls' = Append(calls, [op |-> "addData", arg |-> xmlfiles,
                                                  exc |-> r.exc, by |-> "caller"])
    /\ UNCHANGED << hdfobj, imt, reply >>
    /\ UNCHANGED << group_index, gc2, held, answers, shapes >>
    /\ UNCHANGED << factoryVars, geomVars >>

\* A StationList right after _createTables().
InitStations ==
    /\ FactoryIdle
    /\ fixed = << << >>, << >> >>
    /\ quadrilaterals = << >>
    /\ site = Pt(0, 0, 0)
    /\ rjb = NoDist
    /\ rrup = NoDist
    /\ group_index = << >>
    /\ gc2 = NoGC2
    /\ shapes = NoShapes
    /\ held = [of |-> "none"]
    /\ answers = [a \in Accessors |-> NoAnswer]
    /\ hdfobj = EmptyHDF
    /\ imt = << >>
    /\ calls = << >>
    /\ reply = NoReply
    /\ tables = EmptyTables

NextStations == AddData

SpecStations == InitStations /\ [][NextStations]_vars

\* ------------------------------------------------- QuadRupture.fromVertices
\* The ring of the quads ind of one group: p0 of the first of them, p1 of all
\* of them, p2 of all of them backwards, p3 of the first, and p0 again.
vertices_ring(v, ind) ==
    << v.p0[ind[1]] >>
    \o [k \in 1 .. Len(ind) |-> v.p1[ind[k]]]
    \o PyReverse([k \in 1 .. Len(ind) |-> v.p2[ind[k]]])
    \o << v.p3[ind[1]] >>
    \o << v.p0[ind[1]] >>

\* fromVertices up to "return cls(d, origin)": [exc, val] with val the
\* dictionary.  v holds the four lists of points; group_index is PyNone or
\* [list |-> the indices].
fromVertices(v, group_index_, reference) ==
    LET nq == Len(v.p0)
        gi == IF group_index_ = PyNone THEN [k \in 1 .. nq |-> k - 1]
              ELSE group_index_.list
        u_groups == np_sorted(np_unique(gi))
        coords == [i \in 1 .. Len(u_groups) |->
                     vertices_ring(v, np_where(gi, u_groups[i]))]
    IN  IF ~(Len(v.p0) = Len(v.p1) /\ Len(v.p1) = Len(v.p2) /\ Len(v.p2) = Len(v.p3))
        THEN [exc |-> "ShakeLibException"]
        ELSE IF group_index_ # PyNone /\ Len(gi) # nq THEN [exc |-> "Exception"]
        ELSE [exc |-> NoExc, val |-> GeoJSON(coords, reference)]

\* The call of fromVertices: the dictionary, and then the constructor.
FromVertices ==
    /\ pc = "fromVertices"
    /\ LET r == fromVertices(calls[1].arg.v, calls[1].arg.group_index, << >>)
       IN  IF r.exc # NoExc
           THEN Finish(Raised(r.exc)) /\ UNCHANGED d
           ELSE d' = r.val /\ pc' = "QuadRupture" /\ UNCHANGED outcome
    /\ UNCHANGED << entry, origin, file, inText, valid_quads >>
    /\ UNCHANGED << geomVars, queryVars >>

\* The quad over the slot x0 of the line: the top edge at the surface, the
\* bottom edge DEPTH_TOL deep, HStep to the side.
SlotQuad(x0) ==
    << Pt(HStep * x0, 0, 0), Pt(HStep * (x0 + 1), 0, 0),
       Pt(HStep * (x0 + 1), HStep, DEPTH_TOL), Pt(HStep * x0, HStep, DEPTH_TOL) >>

\* The labels of the groups.
Labels == 0 .. 1

\* fromVertices on one to MaxQuads + 1 quads over any slots, with any group
\* indices of that length or one more, or none, and with all the vectors of
\* one length or the last one short.
InitVertices ==
    /\ entry = "fromVertices"
    /\ pc = entry
    /\ origin = "origin"
    /\ file = NoFile
    /\ d = NoDict
    /\ inText = FALSE
    /\ valid_quads = FALSE
    /\ outcome = Pending
    /\ fixed = << << >>, << >> >>
    /\ quadrilaterals = << >>
    /\ site = Pt(0, 0, 0)
    /\ rjb = NoDist
    /\ rrup = NoDist
    /\ group_index = << >>
    /\ gc2 = NoGC2
    /\ shapes = NoShapes
    /\ held = [of |-> "none"]
    /\ answers = [a \in Accessors |-> NoAnswer]
    /\ hdfobj = EmptyHDF
    /\ tables = NoTables
    /\ imt = << >>
    /\ reply = NoReply
    /\ \E nq \in 1 .. (MaxQuads + 1) :
         \E x0 \in [1 .. nq -> 0 .. (MaxQuads + 1)], short \in BOOLEAN :
            \E gi \in {PyNone} \cup { [list |-> l] : l \in [1 .. nq -> Labels] }
                      \cup { [list |-> l] : l \in [1 .. (nq + 1) -> {0}] } :
               calls = << [op |-> "fromVertices",
                           arg |-> [v |-> [p0 |-> [k \in 1 .. nq |-> SlotQuad(x0[k])[1]],
                                           p1 |-> [k \in 1 .. nq |-> SlotQuad(x0[k])[2]],
                                           p2 |-> [k \in 1 .. nq |-> SlotQuad(x0[k])[3]],
                                           p3 |-> [k \in 1 .. (IF short THEN nq - 1 ELSE nq)
                                                     |-> SlotQuad(x0[k])[4]]],
                                   group_index |-> gi],
                           exc |-> NoExc, by |-> "caller"] >>

NextVertices ==
    \/ FromVertices
    \/ NewQuadRupture

SpecVertices == InitVertices /\ [][NextVertices]_vars

\* ------------------------------------------------ QuadRupture.writeTextFile
\* The coordinates of the ruptures written are in units of 1e-5 (degrees, km):
\* Fine of them make one unit of the last decimal of '%.4f'.
Fine == 10

\* Rounding of v / m to the nearest integer, a tie to the even one.
round_half_even(v, m) ==
    LET q == v \div m
        r == v % m
    IN  IF 2 * r < m THEN q
        ELSE IF 2 * r > m THEN q + 1
        ELSE IF q % 2 = 0 THEN q ELSE q + 1

\* '%.4f' % v: the text, as the count of 1e-4 it spells.
fmt4(v) == round_half_even(v, Fine)

\* float(text) of such a text.
float4(n) == n * Fine

\* str.strip() of the whitespace the lines hold.
Whitespace == {" ", "\n"}
RECURSIVE str_lstrip(_)
str_lstrip(s) ==
    IF Len(s) > 0 /\ SubSeq(s, 1, 1) \in Whitespace
    THEN str_lstrip(SubSeq(s, 2, Len(s))) ELSE s
RECURSIVE str_rstrip(_)
str_rstrip(s) ==
    IF Len(s) > 0 /\ SubSeq(s, Len(s), Len(s)) \in Whitespace
    THEN str_rstrip(SubSeq(s, 1, Len(s) - 1)) ELSE s
str_strip(s) == str_rstrip(str_lstrip(s))

\* The line of the file for a text written that starts with '#', as
\* text_to_json takes it: sline = line.strip().
comment_line(text) == [kind |-> "comment", parts |-> str_strip(text)]

\* The line '%.4f %.4f %.4f\n' % (P.latitude, P.longitude, P.depth), as the
\* three numbers text_to_json reads from it.
vertex_line(P) ==
    [kind |-> "vertex",
     parts |-> << float4(fmt4(P.y)), float4(fmt4(P.x)), float4(fmt4(P.z)) >>]

\* The lines of one quad: P0, P1, P2, P3, P0 and '>'.
quad_lines(quad) ==
    << vertex_line(quad[1]), vertex_line(quad[2]), vertex_line(quad[3]),
       vertex_line(quad[4]), vertex_line(quad[1]),
       [kind |-> "sep", parts |-> << >>] >>

RECURSIVE all_quad_lines(_, _)
all_quad_lines(quads, k) ==
    IF k > Len(quads) THEN << >>
    ELSE quad_lines(quads[k]) \o all_quad_lines(quads, k + 1)

\* writeTextFile: the lines written for the rupture rupt.
writeTextFile(rupt) ==
    << comment_line("#" \o rupt.reference \o "\n") >>
    \o all_quad_lines(getQuadrilaterals(rupt.quads).val, 1)

\* rupt.writeTextFile(path) on the rupture the caller holds; the caller then
\* calls get_rupture(origin, path).
WriteTextFile ==
    /\ pc = "writeTextFile"
    /\ file' = TextFile("path", writeTextFile(held.val))
    /\ pc' = "get_rupture"
    /\ UNCHANGED << entry, origin, d, inText, valid_quads, outcome >>
    /\ UNCHANGED << geomVars, queryVars >>

\* The offsets of the coordinates from the last decimal written.
Fracs == {0, 4, 6}

\* A closed ring of n quads from the column x0: the top edge at the depth fz
\* along y = fy, the bottom edge DEPTH_TOL * Fine deeper, HStep * Fine to the
\* side; the vertices are HStep * Fine apart, from fx on.
FineRing(n, x0, fx, fy, fz) ==
    [k \in 1 .. (2 * n + 3) |->
        IF k <= n + 1 THEN Pt(Fine * HStep * (x0 + k - 1) + fx, fy, fz)
        ELSE IF k <= 2 * n + 2
        THEN Pt(Fine * HStep * (x0 + 2 * n + 2 - k) + fx,
                Fine * HStep + fy, Fine * DEPTH_TOL + fz)
        ELSE Pt(Fine * HStep * x0 + fx, fy, fz)]

\* The rings of the ruptures written: one after the other along x, with one
\* column between two of them.
RECURSIVE FineRings(_, _, _, _, _, _)
FineRings(ns, i, x0, fx, fy, fz) ==
    IF i > Len(ns) THEN << >>
    ELSE << FineRing(ns[i], x0, fx, fy, fz) >>
         \o FineRings(ns, i + 1, x0 + ns[i] + 2, fx, fy, fz)

\* The reference strings of the ruptures written.
References == {"", "From J Smith", "J Smith, pers. comm. "}

\* The caller holds a QuadRupture of one to MaxRings rings of one to MaxQuads
\* quads, with any of the references, and is about to write it.
InitWrite ==
    /\ entry = "writeTextFile"
    /\ pc = entry
    /\ origin = "origin"
    /\ file = NoFile
    /\ d = NoDict
    /\ inText = FALSE
    /\ valid_quads = FALSE
    /\ outcome = Pending
    /\ fixed = << << >>, << >> >>
    /\ quadrilaterals = << >>
    /\ site = Pt(0, 0, 0)
    /\ rjb = NoDist
    /\ rrup = NoDist
    /\ group_index = << >>
    /\ gc2 = NoGC2
    /\ shapes = NoShapes
    /\ answers = [a \in Accessors |-> NoAnswer]
    /\ UtilIdle
    /\ \E nr \in 1 .. MaxRings, reference \in References :
         \E ns \in [1 .. nr -> 1 .. MaxQuads], fx \in Fracs, fy \in Fracs, fz \in Fracs :
            held = [of |-> "rupture", alias |-> FALSE, changed |-> FALSE,
                    val |-> QuadRuptureInit(
                               GeoJSON(FineRings(ns, 1, 0, fx, fy, fz), reference),
                               origin)]

NextWrite ==
    \/ WriteTextFile
    \/ GetRuptureText
    \/ TextToJson
    \/ ValidateJson
    \/ IsQuadruptureClass
    \/ NewQuadRupture

SpecWrite == InitWrite /\ [][NextWrite]_vars

\* ------------------------------------------------- the shapes of the sites
\* A shape is a tuple of one or two lengths; np.size is their product.
MaxLength == 2
ArrayShapes ==
    { << n >> : n \in 1 .. MaxLength }
        \cup { << n, m >> : n \in 1 .. MaxLength, m \in 1 .. MaxLength }

np_size(shape) == IF Len(shape) = 2 THEN shape[1] * shape[2] ELSE shape[1]

\* newshape of the queries, from lon.shape alone.
newshape(oldshape) ==
    IF Len(oldshape) = 2 THEN << oldshape[1] * oldshape[2], 1 >>
    ELSE << oldshape[1], 1 >>

ShapeReturned(shape) == [kind |-> "returned", shape |-> shape]
ShapeRaised == [kind |-> "raised", shape |-> << >>]

\* computeRjb and computeRrup: latlon2ecef (pyproj.transform) takes arrays of
\* one size and gives x, y, z of the shapes of lon, lat, depth; x.shape =
\* newshape takes an array of the size of lon; the result has the shape of
\* lon.  No shape is compared with another.
distance_shapes(lon, lat, depth) ==
    IF np_size(lat) # np_size(lon) \/ np_size(depth) # np_size(lon)
    THEN ShapeRaised
    ELSE ShapeReturned(lon)

\* _computeGC2 never reads depth.  For lon and lat of one shape it returns
\* arrays of that shape; for different shapes numpy's broadcasting decides
\* (broadcasts), and the call returns or raises at the reshape to lon.shape.
gc2_shapes(lon, lat, depth, broadcasts) ==
    IF lat = lon \/ broadcasts THEN ShapeReturned(lon) ELSE ShapeRaised

\* computeRjb(lon, lat, depth) on arrays of the shapes.
ShapesRjb ==
    /\ shapes # NoShapes
    /\ answers["computeRjb"] = NoAnswer
    /\ answers' = [answers EXCEPT !["computeRjb"] =
                     distance_shapes(shapes.lon, shapes.lat, shapes.depth)]
    /\ UNCHANGED << group_index, gc2, held, shapes, utilVars >>
    /\ UNCHANGED << factoryVars, geomVars >>

\* computeRrup(lon, lat, depth) on arrays of the shapes.
ShapesRrup ==
    /\ shapes # NoShapes
    /\ answers["computeRrup"] = NoAnswer
    /\ answers' = [answers EXCEPT !["computeRrup"] =
                     distance_shapes(shapes.lon, shapes.lat, shapes.depth)]
    /\ UNCHANGED << group_index, gc2, held, shapes, utilVars >>
    /\ UNCHANGED << factoryVars, geomVars >>

\* computeGC2(lon, lat, depth) on arrays of the shapes.
ShapesGC2 ==
    /\ shapes # NoShapes
    /\ answers["computeGC2"] = NoAnswer
    /\ \E broadcasts \in BOOLEAN :
         answers' = [answers EXCEPT !["computeGC2"] =
                       gc2_shapes(shapes.lon, shapes.lat, shapes.depth, broadcasts)]
    /\ UNCHANGED << group_index, gc2, held, shapes, utilVars >>
    /\ UNCHANGED << factoryVars, geomVars >>

InitShapes ==
    /\ FactoryIdle
    /\ fixed = << << >>, << >> >>
    /\ quadrilaterals = << >>
    /\ site = Pt(0, 0, 0)
    /\ rjb = NoDist
    /\ rrup = NoDist
    /\ group_index = << >>
    /\ gc2 = NoGC2
    /\ CallerIdle
    /\ \E lon, lat, depth \in ArrayShapes :
         shapes = [lon |-> lon, lat |-> lat, depth |-> depth]

NextShapes ==
    \/ ShapesRjb
    \/ ShapesRrup
    \/ ShapesGC2

SpecShapes == InitShapes /\ [][NextShapes]_vars

\* ------------------------------------------------------------------ the claims
Done == pc = "done"
ReturnedCls(c) == outcome.kind = "returned" /\ outcome.rupt.cls = c
Polygons == d.features[1].polygons

\* The top-edge and bottom-edge depths of a closed ring p of n pairs, and its
\* sub-quads as the classifier defines them.
NPairs(p) == (Len(p) - 1) \div 2
TopDepths(p) == [k \in 1 .. NPairs(p) |-> p[k].z]
BottomDepths(p) == [k \in 1 .. NPairs(p) |-> p[NPairs(p) + k].z]
PairwiseClose(a) == \A i, k \in 1 .. Len(a) : Abs(a[i] - a[k]) <= DEPTH_TOL
SubQuadsCoplanar(p) ==
    \A j \in 1 .. (NPairs(p) - 1) :
        is_quad_on_plane(<< p[j], p[j + 1], p[Len(p) - 1 - j], p[Len(p) - j] >>)

\* The criteria of a quad rupture, on every ring.
C1_QuadCriteria ==
    \A i \in 1 .. Len(Polygons) :
        /\ PairwiseClose(TopDepths(Polygons[i]))
        /\ PairwiseClose(BottomDepths(Polygons[i]))
        /\ SubQuadsCoplanar(Polygons[i])

\* C1: json_to_rupture on a validated dictionary returns a QuadRupture if and
\* only if in every ring the top depths are pairwise within DEPTH_TOL, the
\* bottom depths are pairwise within DEPTH_TOL and every sub-quad passes the
\* coplanarity test; in every other case it returns an EdgeRupture.
C1_ClassifiedByCriteria ==
    (entry = "json_to_rupture" /\ Done /\ validate_json(d) = NoExc)
        => IF C1_QuadCriteria THEN ReturnedCls("QuadRupture")
           ELSE ReturnedCls("EdgeRupture")

\* The stored run of ring i (the ring without its closing vertex), the quad j
\* (from 0) that the run defines, and the places of the group's quads in the
\* rupture's list.
Run(i) == SubSeq(Polygons[i], 1, Len(Polygons[i]) - 1)
RunQuad(v, j) ==
    << v[j + 1], v[j + 2], v[Len(v) - 1 - j], v[Len(v) - j] >>
GroupPlaces(r, i) ==
    { k \in 1 .. Len(r.group_index) : r.group_index[k] = i - 1 }
GroupFirst(r, i) ==
    Cardinality({ k \in 1 .. Len(r.group_index) : r.group_index[k] < i - 1 })
BuiltAsRun(r, i, count) ==
    /\ Cardinality(GroupPlaces(r, i)) = count
    /\ GroupPlaces(r, i) = (GroupFirst(r, i) + 1) .. (GroupFirst(r, i) + count)
    /\ Len(r.raw) = Len(r.group_index)
    /\ \A j \in 0 .. (count - 1) :
         r.raw[GroupFirst(r, i) + 1 + j] = RunQuad(Run(i), j)

\* C2 as stated: for every ring whose stored run has an even number N of
\* vertices, the builder makes exactly (N - 4) / 2 + 1 quads, and quad j before
\* the strike fix is [v[j], v[j+1], v[N-2-j], v[N-1-j]].
C2_QuadsOfEveryEvenRun ==
    (Done /\ ReturnedCls("QuadRupture"))
        => \A i \in 1 .. Len(Polygons) :
             (Len(Run(i)) % 2 = 0)
                => BuiltAsRun(outcome.rupt, i, (Len(Run(i)) - 4) \div 2 + 1)

\* C2 amended: the same for every ring whose stored run has an even number
\* N >= 2 of vertices; a run with no vertex gives no quad.
C2_QuadsOfEvenRun ==
    (Done /\ ReturnedCls("QuadRupture"))
        => \A i \in 1 .. Len(Polygons) :
             /\ (Len(Run(i)) % 2 = 0 /\ Len(Run(i)) >= 2)
                  => BuiltAsRun(outcome.rupt, i, (Len(Run(i)) - 4) \div 2 + 1)
             /\ (Len(Run(i)) = 0) => BuiltAsRun(outcome.rupt, i, 0)

\* A rupture built from two rings, the second with a run of six vertices.
C2_Witness ==
    /\ Done
    /\ ReturnedCls("QuadRupture")
    /\ Len(Polygons) = 2
    /\ Len(Run(1)) = 0
    /\ Len(Run(2)) = 6
    /\ Len(outcome.rupt.raw) = 2
    /\ outcome.rupt.raw[2] = RunQuad(Run(2), 1)

HasEvenRing(dd) ==
    /\ Len(dd.features) >= 1
    /\ \E i \in 1 .. Len(dd.features[1].polygons) :
         Len(dd.features[1].polygons[i]) % 2 = 0

\* The description get_rupture reads has a ring with an even number of points:
\* in the JSON document of the file, or in the dictionary made from its text.
EvenRingRead ==
    \/ HasEvenRing(d)
    \/ file # NoFile /\ file.fmt = "json" /\ HasEvenRing(file.json)

\* C3: reading a description with at least one ring of an even number of
\* points, wherever the ring is and whatever the other rings are, raises an
\* error and returns no rupture.
C3_EvenRingRaises ==
    (Done /\ EvenRingRead)
        => (outcome.kind = "raised" /\ outcome.rupt = NoRupture)

\* A JSON file whose second ring is even, after an acceptable first ring, is
\* refused for its parity.
C3_Witness ==
    /\ Done
    /\ outcome.kind = "raised"
    /\ outcome.exc = "NotOdd"
    /\ Len(Polygons) = 2
    /\ validate_ring(Polygons[1]) = NoExc
    /\ Len(Polygons[2]) % 2 = 0
    /\ Len(Polygons[2]) > 0

ValidateExcs ==
    {"NotFeatureCollection", "NotOneFeature", "NoReference", "NotFeature",
     "NotMultiPolygon", "NoCoordinates", "NotOdd", "NotClosed", "TopBelowBottom"}
ValidateRaised == outcome.kind = "raised" /\ outcome.exc \in ValidateExcs

\* A top vertex deeper than its paired bottom vertex in ring p (0-based j
\* against len - 2 - j).
DeeperTop(p) ==
    \E j \in 0 .. ((Len(p) - 1) \div 2 - 1) : p[j + 1].z > p[Len(p) - 2 - j + 1].z

\* C4: on closed rings of odd length (the other checks passing) validate_json
\* raises if and only if some ring has a pair j in 0 .. (len-1)/2 - 1 with
\* depth(p[j]) > depth(p[len-2-j]).
C4_RaisesIffDeeperTop ==
    (entry = "json_to_rupture" /\ pc # "json_to_rupture")
        => (ValidateRaised <=> \E i \in 1 .. Len(Polygons) : DeeperTop(Polygons[i]))

\* A ring refused for its second pair only, the first pair having equal depths.
C4_Witness ==
    /\ entry = "json_to_rupture"
    /\ Done
    /\ outcome.exc = "TopBelowBottom"
    /\ Len(Polygons) = 1
    /\ Len(Polygons[1]) = 5
    /\ Polygons[1][1].z = Polygons[1][4].z
    /\ Polygons[1][2].z > Polygons[1][3].z

\* C5: get_rupture chooses the format by the content, for a path and for a
\* file-like object alike: JSON content goes to the structured parser only and
\* a validate_json violation is raised to the caller; the text parser is tried
\* exactly when the content is not JSON.
C5_FormatByContent ==
    (Done /\ file # NoFile)
        => /\ inText <=> (file.fmt = "text")
           /\ (file.fmt = "json" /\ validate_json(file.json) # NoExc)
                => (outcome.kind = "raised" /\ outcome.exc = validate_json(file.json))

\* C6: without a file get_rupture returns a PointRupture on the origin for
\* every origin given, parsing nothing, and raises when no origin is given.
C6_PointRupture ==
    (file = NoFile)
        => /\ pc \in {"get_rupture", "done"}
           /\ d = NoDict /\ ~inText
           /\ Done => IF origin = "None"
                      THEN outcome.kind = "raised" /\ outcome.rupt = NoRupture
                      ELSE outcome = Returned([cls |-> "PointRupture", origin |-> origin])

C6_Witness ==
    /\ Done
    /\ file = NoFile
    /\ origin # "None"
    /\ ReturnedCls("PointRupture")
    /\ outcome.rupt.origin = origin

\* C7: QuadRupture(d, origin) on a run with a quad whose fourth point is off
\* the plane of the other three by more than the tolerance raises, and returns
\* no rupture.
C7_OffPlaneRaises ==
    (entry = "QuadRupture" /\ Done
        /\ \E i \in 1 .. Len(Polygons) :
             \E j \in 0 .. ((Len(Run(i)) - 4) \div 2) :
                ~is_quad_on_plane(RunQuad(Run(i), j)))
        => (outcome.kind = "raised" /\ outcome.rupt = NoRupture)

\* The first result of the strike fix on the quad (k = 1) or on its reverse.
Stored(k) == fixed[k][2]
BothStored == Len(fixed[1]) >= 2 /\ Len(fixed[2]) >= 2
\* A vertical quad: the vertical part of the quad's unit normal is below the
\* eps of the strike test.
Vertical(q) ==
    LET n == VCross(VSub(q[2], q[1]), VSub(q[4], q[1]))
    IN  EPS_INV * Abs(n.z) < VDot(n, n) /\ EPS_INV * EPS_INV * n.z * n.z < VDot(n, n)
Idempotent == \A k \in 1 .. 2 : (Len(fixed[k]) = 3) => (fixed[k][3] = fixed[k][2])

\* C8 as stated: for every valid planar quad the builder stores the same order
\* given the quad or its reverse, exactly one of the two left unchanged, and the
\* strike fix applied to its own result changes nothing.
C8_SameOrderEveryQuad ==
    /\ BothStored
         => /\ Stored(1) = Stored(2)
            /\ (Stored(1) = fixed[1][1]) # (Stored(2) = fixed[2][1])
    /\ Idempotent

\* C8 amended: the same for every valid planar quad that is not vertical; a
\* vertical quad and its reverse are both left unchanged.
C8_SameOrder ==
    /\ (BothStored /\ ~Vertical(fixed[1][1]))
         => /\ Stored(1) = Stored(2)
            /\ (Stored(1) = fixed[1][1]) # (Stored(2) = fixed[2][1])
    /\ (BothStored /\ Vertical(fixed[1][1]))
         => /\ Stored(1) = fixed[1][1]
            /\ Stored(2) = fixed[2][1]
    /\ Idempotent

\* A dipping trapezoid given in the wrong winding: swapped to the order its
\* reverse keeps, and kept by a second fix.
C8_Witness ==
    /\ Len(fixed[1]) = 3
    /\ Len(fixed[2]) = 3
    /\ ~Vertical(fixed[1][1])
    /\ fixed[1][1][1].z < fixed[1][1][4].z
    /\ Stored(1) # fixed[1][1]
    /\ Stored(1) = reverse_quad(fixed[1][1])
    /\ Stored(2) = fixed[2][1]
    /\ fixed[1][3] = Stored(2)

\* C9: for every rupture of valid quads and every site, at any depth,
\* computeRjb(site) <= computeRrup(site).
C9_RjbAtMostRrup ==
    (rjb # NoDist /\ rrup # NoDist) => RatLE(rjb, rrup)

\* The site is strictly on one side of all four edges of the quad's surface
\* projection, taken in order.
Side(A, B, S) == (B.x - A.x) * (S.y - A.y) - (B.y - A.y) * (S.x - A.x)
InFootprint(q, S) ==
    \/ \A k \in 1 .. 4 : Side(q[k], q[(k % 4) + 1], S) > 0
    \/ \A k \in 1 .. 4 : Side(q[k], q[(k % 4) + 1], S) < 0

\* C10: a site inside the horizontal footprint of at least one quad of the
\* rupture has computeRjb exactly 0, whatever the other quads and their order.
C10_ZeroInFootprint ==
    (rjb # NoDist /\ \E i \in 1 .. Len(quadrilaterals) : InFootprint(quadrilaterals[i], site))
        => rjb = RatZero

\* A site at depth inside the footprint of the first of two quads only.
C10_Witness ==
    /\ rjb = RatZero
    /\ Len(quadrilaterals) = 2
    /\ InFootprint(quadrilaterals[1], site)
    /\ ~InFootprint(quadrilaterals[2], site)
    /\ site.z > 0

GC2Done == gc2 # NoGC2
Groups == np_unique(group_index)
TraceStart(k) == quadrilaterals[iq0(group_index, k)][1]
TraceEnd(k) == quadrilaterals[iq1(group_index, k)][2]
TraceEnds == { TraceStart(k) : k \in Groups } \cup { TraceEnd(k) : k \in Groups }

\* C11: for a rupture of more than one group, A0 and A1 of computeGC2 are
\* endpoints of traces (the first top vertex of the first quad of a group, or
\* the second top vertex of its last quad), and no two endpoints of traces,
\* of groups with several quads too, are farther apart than A0 and A1.
C11_FarthestEndpoints ==
    (GC2Done /\ Cardinality(Groups) > 1) =>
        /\ gc2.A0 \in TraceEnds
        /\ gc2.A1 \in TraceEnds
        /\ \A P, Q \in TraceEnds :
             geodetic_distance_sq(P, Q) <= geodetic_distance_sq(gc2.A0, gc2.A1)

Discordant(k) == VDot(VSub(fromPoint(TraceEnd(k)), fromPoint(TraceStart(k))), gc2.a) < 0
Reversed(k) ==
    \A i \in iq0(group_index, k) .. iq1(group_index, k) :
        gc2.quadgc2[i] =
            reverse_quad(quadrilaterals[iq0(group_index, k) + iq1(group_index, k) - i])
Untouched(k) ==
    \A i \in iq0(group_index, k) .. iq1(group_index, k) :
        gc2.quadgc2[i] = quadrilaterals[i]

\* C12: for a rupture of more than one group, computeGC2 reverses a trace
\* (every quad flipped to [P1, P0, P3, P2], the order of the quads within the
\* group reversed) if and only if the direction from its first to its last
\* endpoint has a negative dot product with the final axis; the other traces
\* are left as they are, and every quad keeps its group.
C12_ReversedIffDiscordant ==
    (GC2Done /\ Cardinality(Groups) > 1) =>
        \A k \in Groups :
            IF Discordant(k) THEN Reversed(k) ELSE Untouched(k)

\* The sum of the top-edge lengths of the quads, km: the totalLength of ry.
RECURSIVE TopLength(_, _)
TopLength(quads, ks) ==
    IF ks = {} THEN RatZero
    ELSE LET k == CHOOSE m \in ks : TRUE
         IN  RatAdd(get_quad_length(quads[k]), TopLength(quads, ks \ {k}))

TotalLength == TopLength(quadrilaterals, DOMAIN quadrilaterals)

\* For more than one group: from the origin A0 along np.sign(E) * ahat to the
\* first point of the trace of the last quad of the list, plus the length of
\* that trace, km.
LastTrace == { i \in DOMAIN group_index : group_index[i] = Last(group_index) }
LastTraceEnd ==
    LET first == fromPoint(gc2.quadgc2[iq0(group_index, Last(group_index))][1])
        along == VDot(VSub(first, fromPoint(gc2.A0)), VScale(gc2.a, Sgn(gc2.E.n)))
    IN  RatAdd(Rat(along, mag(gc2.a) * M_PER_KM), TopLength(gc2.quadgc2, LastTrace))

Ry0End == IF Cardinality(Groups) > 1 THEN LastTraceEnd ELSE TotalLength

\* C13 as stated: ry0 is 0 for U in [0, totalLength], U itself for U < 0 and
\* U - totalLength for U > totalLength, with totalLength the sum of the
\* top-edge lengths of the quads that ry = U - totalLength / 2 uses, for one
\* group and for several.
C13_Ry0OfTotalLength ==
    GC2Done =>
        /\ np_less(gc2.U, RatZero) => gc2.ry0 = gc2.U
        /\ np_greater(gc2.U, TotalLength) => gc2.ry0 = RatSub(gc2.U, TotalLength)
        /\ (~IsNaN(gc2.U) /\ ~RatLT(gc2.U, RatZero) /\ ~RatLT(TotalLength, gc2.U))
             => gc2.ry0 = RatZero

\* C13 amended: ry0 is U - end for U > end, otherwise -U for U < 0, otherwise
\* 0 for U in [0, end]; ry is U - totalLength / 2 with totalLength the sum of
\* the top-edge lengths; end is totalLength for one group, and for several
\* groups the end of the trace of the last quad of the list, measured from
\* the origin along the axis.
C13_Ry0OfEnd ==
    GC2Done =>
        /\ np_greater(gc2.U, Ry0End) => gc2.ry0 = RatSub(gc2.U, Ry0End)
        /\ (np_less(gc2.U, RatZero) /\ ~np_greater(gc2.U, Ry0End))
             => gc2.ry0 = [n |-> -gc2.U.n, d |-> gc2.U.d]
        /\ (~IsNaN(gc2.U) /\ ~RatLT(gc2.U, RatZero) /\ ~RatLT(Ry0End, gc2.U))
             => gc2.ry0 = RatZero
        /\ ~IsNaN(gc2.U) => gc2.ry = RatSub(gc2.U, RatMul(TotalLength, Rat(1, 2)))

\* A site beyond the end of a rupture of several groups whose end is not the
\* sum of the lengths.
C13_Witness ==
    /\ GC2Done
    /\ Cardinality(Groups) > 1
    /\ np_greater(gc2.U, Ry0End)
    /\ Ry0End # TotalLength
    /\ RatLT(RatZero, gc2.ry0)

\* C14: no query returns NaN: computeRjb, computeRrup and computeGC2 raise
\* when a NaN would reach the output, as at a site with t_i = 0 and
\* 0 <= u_i <= l_i for every quad, where the weights of GC2 add up to 0.
C14_NoNaNReturned ==
    /\ ~IsNaN(rjb)
    /\ ~IsNaN(rrup)
    /\ GC2Done => \A key \in {"T", "U", "rx", "ry", "ry0"} : ~IsNaN(gc2[key])

SameShapes == shapes.lon = shapes.lat /\ shapes.lat = shapes.depth

\* C15: a query on lon, lat and depth that do not all have one shape, shapes
\* that broadcast to one another too, raises an input error, and computes no
\* distance.
C15_ShapeMismatchRaises ==
    (shapes # NoShapes /\ ~SameShapes) =>
        \A q \in {"computeRjb", "computeRrup", "computeGC2"} :
            answers[q] # NoAnswer => answers[q].kind = "raised"

\* What a query repeated now would return.
Repeatable ==
    /\ rjb # NoDist => \E nan_sign \in BOOLEAN :
                          rjb = computeRjb(quadrilaterals, site, nan_sign)
    /\ rrup # NoDist => rrup = computeRrup(quadrilaterals, site)
    /\ GC2Done => gc2 = computeGC2(quadrilaterals, group_index, site)
    /\ answers["getArea"] # NoAnswer
         => answers["getArea"].val = getArea(quadrilaterals, 1)
    /\ answers["getIndividualWidths"] # NoAnswer
         => answers["getIndividualWidths"].val = getIndividualWidths(quadrilaterals)
    /\ answers["getIndividualTopLengths"] # NoAnswer
         => answers["getIndividualTopLengths"].val
              = getIndividualTopLengths(quadrilaterals)

\* C16: a QuadRupture does not change after its construction: no query and
\* no change by the caller to a list got from getQuadrilaterals or
\* _getGroupIndex changes the quads or the group indices of the rupture, and
\* every query repeated returns what it returned before.
C16_Immutable ==
    /\ [][quadrilaterals' = quadrilaterals /\ group_index' = group_index]_vars
    /\ []Repeatable

\* The caller has changed the quads it got, with a top edge below the
\* surface, and all three queries have run on more than one group.
C16_Witness ==
    /\ held.of = "quads"
    /\ held.changed
    /\ held.val # quadrilaterals
    /\ quadrilaterals[1][1].z > 0
    /\ Cardinality(Groups) > 1
    /\ GC2Done
    /\ gc2.quadlist # quadrilaterals
    /\ rjb # NoDist
    /\ rrup # NoDist

\* The sum over the quads of top length times width, both in km.
RECURSIVE SumOfProducts(_, _, _)
SumOfProducts(ls, ws, i) ==
    IF i > Len(ls) THEN RatZero
    ELSE RatAdd(RatMul(ls[i], ws[i]), SumOfProducts(ls, ws, i + 1))

\* C20: getArea() is the area in square km: the sum over the quads of
\* getIndividualTopLengths()[i] * getIndividualWidths()[i].
C20_AreaInSquareKm ==
    (/\ answers["getArea"] # NoAnswer
     /\ answers["getIndividualTopLengths"] # NoAnswer
     /\ answers["getIndividualWidths"] # NoAnswer)
    => answers["getArea"].val
         = SumOfProducts(answers["getIndividualTopLengths"].val,
                         answers["getIndividualWidths"].val, 1)

\* The text path has converted the file at hand into the dictionary d.
Converted ==
    /\ inText
    /\ pc = "json_to_rupture"

\* The maximal runs of vertex lines between ">" lines, in file order, each
\* vertex as [lon, lat, depth].
RECURSIVE Runs(_, _, _)
Runs(lines, k, run) ==
    LET closed == IF run # << >> THEN << run >> ELSE << >>
    IN  IF k > Len(lines) THEN closed
        ELSE CASE lines[k].kind = "sep" -> closed \o Runs(lines, k + 1, << >>)
               [] lines[k].kind = "vertex" ->
                    Runs(lines, k + 1,
                         Append(run, Pt(lines[k].parts[2], lines[k].parts[1],
                                        lines[k].parts[3])))
               [] OTHER -> Runs(lines, k + 1, run)

\* C17: text_to_json produces exactly one ring per maximal run of vertex
\* lines delimited by ">" lines, in file order; comment lines, blank lines
\* and leading, trailing or consecutive ">" lines produce no ring, so no ring
\* is empty.
C17_RingPerRun ==
    Converted => /\ d.features[1].polygons = Runs(file.lines, 1, << >>)
                 /\ \A i \in 1 .. Len(d.features[1].polygons) :
                      d.features[1].polygons[i] # << >>

\* The ring has vertices and its last is its first.
IsClosed(p) == p # << >> /\ p[1] = p[Len(p)]

\* The ring that closing the run gives: the run when it ends in its first
\* vertex, and the run with its first vertex repeated otherwise.
Closed(run) ==
    IF Len(run) > 1 /\ run[1] = run[Len(run)] THEN run ELSE Append(run, run[1])

\* C18 as stated: text_to_json closes each ring: a run of vertices written
\* without the repeated closing vertex gives a ring with its first vertex
\* repeated as its last, so every converted ring is closed and of odd length
\* where the run had an even number of vertices.
C18_ClosedOnConversion ==
    Converted =>
       LET runs == Runs(file.lines, 1, << >>)
           polygons == SelectSeq(d.features[1].polygons, LAMBDA p : p # << >>)
       IN  /\ Len(polygons) = Len(runs)
           /\ \A i \in 1 .. Len(runs) : polygons[i] = Closed(runs[i])

\* The text path has ended, past the conversion.
ConvertedAndDone ==
    /\ inText
    /\ pc = "done"
    /\ d # NoDict

\* C18 (amended): text_to_json adds no vertex: the rings that are not empty
\* are the runs of vertex lines as the file has them, in file order, so a ring
\* is closed only where the file repeats its first vertex as its last; and a
\* file with a ring that is not closed yields no rupture: get_rupture raises.
C18_RingAsWritten ==
    /\ Converted =>
         SelectSeq(d.features[1].polygons, LAMBDA p : p # << >>)
           = Runs(file.lines, 1, << >>)
    /\ (/\ ConvertedAndDone
        /\ \E i \in 1 .. Len(d.features[1].polygons) :
              ~IsClosed(d.features[1].polygons[i]))
       => outcome.kind = "raised"

\* A run of two different vertices was converted, the ring is not closed, and
\* the call has ended.
C18_Witness ==
    /\ ConvertedAndDone
    /\ Len(d.features[1].polygons) = 1
    /\ Len(d.features[1].polygons[1]) = 2
    /\ ~IsClosed(d.features[1].polygons[1])
    /\ outcome.kind = "raised"

\* The quads of a closed ring of N + 1 vertices: N / 2 - 1, and none of a
\* ring too short for one.
RingQuads(p) == Max((Len(p) - 1) \div 2 - 1, 0)

\* Index i - 1 for every quad of ring i, ring after ring.
RECURSIVE RingIndices(_, _)
RingIndices(polygons, i) ==
    IF i > Len(polygons) THEN << >>
    ELSE Repeat(i - 1, RingQuads(polygons[i])) \o RingIndices(polygons, i + 1)

\* C19: for a QuadRupture built from r validated rings the group-index list
\* has one entry per quad and the index i for every quad of the i-th ring (so
\* it does not decrease), getNumGroups() is r, and getNumQuads() is the sum of
\* the quad counts of the rings; the shortest rings included.
C19_GroupPerRing ==
    (/\ outcome.kind = "returned"
     /\ outcome.rupt.cls = "QuadRupture"
     /\ validate_json(d) = NoExc)
    => LET polygons == d.features[1].polygons
           gi == outcome.rupt.group_index
       IN  /\ Len(gi) = Len(outcome.rupt.quads)
           /\ gi = RingIndices(polygons, 1)
           /\ \A k \in 1 .. (Len(gi) - 1) : gi[k] <= gi[k + 1]
           /\ answers["getNumGroups"] # NoAnswer
                => answers["getNumGroups"].val = Len(polygons)
           /\ answers["getNumQuads"] # NoAnswer
                => answers["getNumQuads"].val = Len(RingIndices(polygons, 1))

\* The places of the quads of group u, in order.
Members(u) == np_where(group_index, u)

\* The length of the loop of a group of n quads, the NaN included.
LoopLen(n) == 2 * (n + 1) + 2

\* The place in the array right before the loop of the k-th group.
RECURSIVE LoopBase(_, _)
LoopBase(us, k) ==
    IF k = 1 THEN 0 ELSE LoopBase(us, k - 1) + LoopLen(Len(Members(us[k - 1])))

\* The array is one closed loop per group, in group order: coordinate c of
\* the first top vertex, of the second top vertex of every quad in order, of
\* the second bottom vertex of every quad in reverse order, of the first
\* bottom vertex, of the first top vertex again, and a NaN.
ClosedLoops(arr, c(_)) ==
    LET us == np_sorted(Groups)
        g == Len(us)
    IN  /\ Len(arr) = LoopBase(us, g + 1)
        /\ Cardinality({ i \in 1 .. Len(arr) : IsNaN(arr[i]) }) = g
        /\ \A k \in 1 .. g :
             LET m == Members(us[k])
                 n == Len(m)
                 o == LoopBase(us, k)
             IN  /\ arr[o + 1] = Num(c(quadrilaterals[m[1]][1]))
                 /\ \A j \in 1 .. n :
                      /\ arr[o + 1 + j] = Num(c(quadrilaterals[m[j]][2]))
                      /\ arr[o + 2 * n + 2 - j] = Num(c(quadrilaterals[m[j]][3]))
                 /\ arr[o + 2 * n + 2] = Num(c(quadrilaterals[m[1]][4]))
                 /\ arr[o + 2 * n + 3] = arr[o + 1]
                 /\ IsNaN(arr[o + 2 * n + 4])

\* C21: lats and lons are g closed loops, one per group in group order: the
\* top vertices in quad order, the bottom vertices in reverse order, the first
\* top vertex again, and one NaN; g NaNs in all, and 2(n+1)+1 vertices for a
\* group of n quads.
C21_ClosedLoops ==
    /\ answers["lats"] # NoAnswer
         => ClosedLoops(answers["lats"].val, LAMBDA P : P.y)
    /\ answers["lons"] # NoAnswer
         => ClosedLoops(answers["lons"].val, LAMBDA P : P.x)

\* Both arrays were read of a rupture of two groups, one of more than one
\* quad, with bottom edges off the line of the top edges.
C21_Witness ==
    /\ answers["lats"] # NoAnswer
    /\ answers["lons"] # NoAnswer
    /\ Cardinality(Groups) = 2
    /\ Len(quadrilaterals) > 2
    /\ \E i \in 1 .. Len(answers["lats"].val) : answers["lats"].val[i] = Num(HStep)
    /\ \E i \in 1 .. Len(answers["lats"].val) : answers["lats"].val[i] = Num(-HStep)

\* The call was made, and the call was made and did not raise.
Called(op) == \E i \in 1 .. Len(calls) : calls[i].op = op
Succeeded(op) == \E i \in 1 .. Len(calls) : calls[i].op = op /\ calls[i].exc = NoExc

\* The last call of op that did not raise.
Latest(op) ==
    calls[CHOOSE i \in 1 .. Len(calls) :
            /\ calls[i].op = op /\ calls[i].exc = NoExc
            /\ \A j \in (i + 1) .. Len(calls) :
                  ~(calls[j].op = op /\ calls[j].exc = NoExc)]

ReturnedNone == reply.exc = NoExc /\ reply.val = PyNone

ItemOf(op) ==
    CASE op = "setConfig" -> [type |-> "dictionary", name |-> "config"]
      [] op = "setEvent" -> [type |-> "dictionary", name |-> "event"]
      [] op = "setRupture" -> [type |-> "string", name |-> "rupture"]
      [] op = "setVersionHistory" -> [type |-> "dictionary", name |-> "version_history"]
      [] OTHER -> [type |-> "string", name |-> "station_data"]

Replacing == Setters \ {"addStationData"}

Copies(h, it) ==
    Cardinality({ i \in 1 .. Len(h.groups) :
                    h.groups[i].type = it.type /\ h.groups[i].name = it.name })

Others(h, it) ==
    { h.groups[i] : i \in { k \in 1 .. Len(h.groups) :
                              ~(h.groups[k].type = it.type /\ h.groups[k].name = it.name) } }

\* The dictionary of the rupture file as setRupture reads it.
RuptureData(f) == IF JsonDecodes(f) THEN f.json ELSE text_to_json(f).val

\* The station files of the last setStationData and of the addStationData
\* calls after it.
StationFiles ==
    LET i == CHOOSE k \in 1 .. Len(calls) :
                /\ calls[k] = Latest("setStationData")
                /\ \A j \in (k + 1) .. Len(calls) : calls[j].op # "setStationData"
        later == SelectSeq(SubSeq(calls, i + 1, Len(calls)),
                           LAMBDA c : c.op = "addStationData" /\ c.exc = NoExc)
    IN  << calls[i].arg >> \o [k \in 1 .. Len(later) |-> later[k].arg]

\* What the getter of the reply returns when it returns the most recent value.
MostRecent ==
    CASE reply.op = "getConfig" -> Latest("setConfig").arg
      [] reply.op = "getOrigin" -> [Origin |-> Latest("setEvent").arg.dict]
      [] reply.op = "getVersionHistory" -> Latest("setVersionHistory").arg
      [] reply.op = "getStationList" -> [StationList |-> StationFiles]
      [] OTHER -> json_to_rupture(RuptureData(Latest("setRupture").arg),
                                  [Origin |-> Latest("setEvent").arg.dict]).val

SetterOf(getter) ==
    CASE getter = "getConfig" -> "setConfig"
      [] getter = "getOrigin" -> "setEvent"
      [] getter = "getVersionHistory" -> "setVersionHistory"
      [] getter = "getStationList" -> "setStationData"
      [] OTHER -> "setRupture"

\* A setter was called: it did not raise, its item is stored once, and the
\* other items are the ones stored before.
SetterStep ==
    (calls' # calls /\ calls'[Len(calls')].op \in Replacing) =>
        /\ calls'[Len(calls')].exc = NoExc
        /\ Copies(hdfobj', ItemOf(calls'[Len(calls')].op)) = 1
        /\ Others(hdfobj', ItemOf(calls'[Len(calls')].op))
             = Others(hdfobj, ItemOf(calls'[Len(calls')].op))

Listed(l) == { l[i] : i \in 1 .. Len(l) }

\* The arguments of the setIMT calls that did not raise.
StoredIMTs ==
    { calls[i].arg : i \in { k \in 1 .. Len(calls) :
                               calls[k].op = "setIMT" /\ calls[k].exc = NoExc } }

\* No pair was passed to setIMT twice.
DistinctPairs ==
    \A i, j \in 1 .. Len(calls) :
        (/\ i # j /\ calls[i].op = "setIMT" /\ calls[j].op = "setIMT"
         /\ calls[i].arg.imt_name = calls[j].arg.imt_name)
            => calls[i].arg.component # calls[j].arg.component

\* getIMT returns what was stored for the pair, and raises LookupError for a
\* pair that was not stored.
GetIMTExact ==
    reply.op = "getIMT" =>
        IF \E a \in StoredIMTs : /\ a.imt_name = reply.arg.imt_name
                                 /\ a.component = reply.arg.component
        THEN /\ reply.exc = NoExc
             /\ \E a \in StoredIMTs : /\ a.imt_name = reply.arg.imt_name
                                      /\ a.component = reply.arg.component
                                      /\ reply.val = a.grids
        ELSE reply.exc = "LookupError"

GetComponentsExact ==
    reply.op = "getComponents" =>
        /\ reply.exc = NoExc
        /\ Listed(reply.val)
             = { a.component : a \in { b \in StoredIMTs :
                                         b.imt_name = reply.arg.imt_name } }

GetIMTsExact ==
    reply.op = "getIMTs" =>
        /\ reply.exc = NoExc
        /\ Listed(reply.val)
             = { a.imt_name : a \in { b \in StoredIMTs :
                                        b.component = reply.arg.component } }

\* C24: after setIMT calls with distinct pairs, getIMT returns what was stored
\* for exactly its pair and raises LookupError for a pair never stored,
\* getIMTs returns exactly the names stored with its component, and
\* getComponents exactly the components stored for its name.
C24_ExactPairs ==
    DistinctPairs => (GetIMTExact /\ GetIMTsExact /\ GetComponentsExact)

\* What holds of the code: getIMT and getComponents are exact.
C24_PairAndComponents ==
    DistinctPairs => (GetIMTExact /\ GetComponentsExact)

\* The i-th conversion is op, of name.
Did(i, op, names) ==
    /\ i \in 2 .. Len(imt)
    /\ imt[i].op = op
    /\ imt[i].in \in names

HasDigit(name) == \E i \in 1 .. Len(name) : IsDigit(Char(name, i))

\* C25: oq_to_file undoes file_to_oq on the names PSA<digits>p<digits>,
\* file_to_oq undoes oq_to_file on the names SA(<digits>.<digits>), both keep
\* 'PGA', 'PGV' and 'MMI', oq_to_file makes 'PSA3p0' of 'SA(3)' and 'PSA0p5'
\* of 'SA(.5)', and raises ValueError for a name without a digit.
C25_MutuallyInverse ==
    \A i \in 2 .. Len(imt) :
        /\ (Did(i, "oq_to_file", Plain) \/ Did(i, "file_to_oq", Plain))
              => (imt[i].exc = NoExc /\ imt[i].out = imt[i].in)
        /\ (Did(i, "file_to_oq", CanonicalFile) \/ Did(i, "oq_to_file", CanonicalOQ))
              => (imt[i].exc = NoExc /\ imt[i].out # imt[i].in)
        /\ (Did(i - 1, "file_to_oq", CanonicalFile) /\ imt[i].op = "oq_to_file")
              => (imt[i].exc = NoExc /\ imt[i].out = imt[i - 1].in)
        /\ (Did(i - 1, "oq_to_file", CanonicalOQ) /\ imt[i].op = "file_to_oq")
              => (imt[i].exc = NoExc /\ imt[i].out = imt[i - 1].in)
        /\ Did(i, "oq_to_file", {"SA(3)"}) => imt[i].out = "PSA3p0"
        /\ Did(i, "oq_to_file", {"SA(.5)"}) => imt[i].out = "PSA0p5"
        /\ (imt[i].op = "oq_to_file" /\ ~HasDigit(imt[i].in) /\ imt[i].in \notin Plain)
              => imt[i].exc = "ValueError"

\* A file name of two digits a side went to OpenQuake's form and back.
C25_Witness ==
    /\ Len(imt) = 3
    /\ imt[2].op = "file_to_oq"
    /\ imt[2].in = "PSA05p30"
    /\ imt[2].out = "SA(05.30)"
    /\ imt[3].op = "oq_to_file"
    /\ imt[3].out = "PSA05p30"

\* No two rows of the list agree on the key.
OneRowPer(rows, key(_)) ==
    \A i, j \in 1 .. Len(rows) : key(rows[i]) = key(rows[j]) => i = j

\* The type of the IMT of an amp row.
ImtTypeOf(a) ==
    { tables.imt[k].imt_type : k \in { i \in 1 .. Len(tables.imt) :
                                         tables.imt[i].id = a.imt_id } }

\* The amp rows of the stations whose network is one of the intensity networks.
IntensityAmps ==
    { tables.amp[k] : k \in { i \in 1 .. Len(tables.amp) :
        \E n \in 1 .. Len(tables.station) :
            /\ tables.station[n].id = tables.amp[i].station_id
            /\ str_lower(tables.station[n].network) \in CIIM_TUPLE } }

\* The files of the calls that did not raise.
Loaded ==
    UNION { Listed(calls[i].arg) : i \in { k \in 1 .. Len(calls) : calls[k].exc = NoExc } }

\* addData with files that are all loaded leaves the tables as they are.
Reload ==
    (calls' # calls /\ Listed(calls'[Len(calls')].arg) \subseteq Loaded)
        => tables' = tables

\* C26: after any addData calls the station table has one row per station id
\* at most, the imt table one per IMT type, the amp table one per
\* (station_id, imt_id, original_channel); a station of an intensity network
\* has amp rows for MMI only; addData with files already loaded adds no row.
C26_OneRowPerKey ==
    /\ [](/\ OneRowPer(tables.station, LAMBDA r : r.id)
          /\ OneRowPer(tables.imt, LAMBDA r : r.imt_type)
          /\ OneRowPer(tables.amp,
                       LAMBDA r : << r.station_id, r.imt_id, r.original_channel >>)
          /\ \A a \in IntensityAmps : ImtTypeOf(a) = {"MMI"})
    /\ [][Reload]_vars

\* Two files were loaded, one of an intensity station that reports a PGA, and
\* the first of them was loaded again.
C26_Witness ==
    /\ Len(calls) = 2
    /\ calls[1].exc = NoExc
    /\ calls[2].exc = NoExc
    /\ Len(calls[1].arg) = 2
    /\ calls[2].arg = << calls[1].arg[1] >>
    /\ Len(tables.amp) = 3
    /\ Len(tables.imt) = 3
    /\ IntensityAmps # {}

\* C27: the while loop of computeGC2 ends after two passes at most: the
\* second pass has the axis and E of the first negated, dc and b as in the
\* first, and a dot product that is not negative; a first pass with E = 0 is
\* the only one.
C27_TwoPasses ==
    (gc2 # NoGC2 /\ Cardinality(Groups) > 1) =>
        /\ Len(gc2.passes) \in 1 .. 2
        /\ ~gc2.passes[Len(gc2.passes)].dummy_negative
        /\ gc2.passes[1].E.n = 0 => Len(gc2.passes) = 1
        /\ Len(gc2.passes) = 2 =>
              /\ gc2.passes[1].dummy_negative
              /\ gc2.passes[2].a = VScale(gc2.passes[1].a, -1)
              /\ RatAdd(gc2.passes[2].E, gc2.passes[1].E).n = 0
              /\ gc2.passes[1].E.n # 0
              /\ gc2.passes[2].dc = gc2.passes[1].dc
              /\ gc2.passes[2].b = gc2.passes[1].b

\* The loop took two passes, on traces that do not all strike the same way.
C27_Witness ==
    /\ gc2 # NoGC2
    /\ Len(gc2.passes) = 2
    /\ \E j, k \in 1 .. Len(gc2.dc) : gc2.dc[j] = 1 /\ gc2.dc[k] = -1

\* The sub-quads that the classifier tests, ring after ring.
RECURSIVE TestedQuads(_, _)
TestedQuads(polygons, i) ==
    IF i > Len(polygons) THEN << >>
    ELSE class_tested(polygons[i]) \o TestedQuads(polygons, i + 1)

\* C28: the classifier and the builder take the same quads of a ring: for
\* every ring the builder makes as many quads as the classifier tests, and
\* the quads it hands to is_quad are, one by one and vertex by vertex, the
\* sub-quads that is_quadrupture_class tests.
C28_SameQuads ==
    (outcome.kind = "returned" /\ outcome.rupt.cls = "QuadRupture") =>
        /\ outcome.rupt.raw = TestedQuads(d.features[1].polygons, 1)
        /\ \A i \in 1 .. Len(d.features[1].polygons) :
              Cardinality({ k \in 1 .. Len(outcome.rupt.group_index) :
                              outcome.rupt.group_index[k] = i - 1 })
                = Len(class_tested(d.features[1].polygons[i]))

\* json_to_rupture classified a ring of two quads as quads and built the
\* QuadRupture of it.
C28_Witness ==
    /\ entry = "json_to_rupture"
    /\ valid_quads
    /\ outcome.kind = "returned"
    /\ outcome.rupt.cls = "QuadRupture"
    /\ Len(outcome.rupt.raw) = 2
    /\ outcome.rupt.raw[1] # outcome.rupt.raw[2]

\* The arguments of the call of fromVertices, and its k-th input quad.
VerticesArg == calls[1].arg
InputQuad(k) ==
    << VerticesArg.v.p0[k], VerticesArg.v.p1[k], VerticesArg.v.p2[k], VerticesArg.v.p3[k] >>
InputGroups ==
    IF VerticesArg.group_index = PyNone
    THEN [k \in 1 .. Len(VerticesArg.v.p0) |-> k - 1]
    ELSE VerticesArg.group_index.list

BuiltFromVertices ==
    /\ entry = "fromVertices"
    /\ outcome.kind = "returned"
    /\ outcome.rupt.cls = "QuadRupture"

\* C29: fromVertices preserves its input quads for every group_index: the
\* rupture has as many quads as were passed, the k-th quad is built of the
\* four vertices of the k-th input quad, and two quads are in one group
\* exactly when their group indices are equal (every quad in a group of its
\* own without group_index).
C29_PreservesQuads ==
    BuiltFromVertices =>
        /\ Len(outcome.rupt.raw) = Len(VerticesArg.v.p0)
        /\ \A k \in 1 .. Len(outcome.rupt.raw) : outcome.rupt.raw[k] = InputQuad(k)
        /\ \A j, k \in 1 .. Len(outcome.rupt.raw) :
              (outcome.rupt.group_index[j] = outcome.rupt.group_index[k])
                 <=> (InputGroups[j] = InputGroups[k])

\* The quads of a group follow one another in the vectors and each starts
\* where the one before ends.
ContiguousGroups ==
    /\ \A j, k \in 1 .. Len(InputGroups) : j <= k => InputGroups[j] <= InputGroups[k]
    /\ \A k \in 2 .. Len(InputGroups) :
          InputGroups[k] = InputGroups[k - 1] =>
              /\ VerticesArg.v.p0[k] = VerticesArg.v.p1[k - 1]
              /\ VerticesArg.v.p3[k] = VerticesArg.v.p2[k - 1]

\* What holds of the code: the quads are preserved when the groups are
\* contiguous, and the number of quads always.
C29_PreservesContiguous ==
    BuiltFromVertices =>
        /\ Len(outcome.rupt.raw) = Len(VerticesArg.v.p0)
        /\ ContiguousGroups => C29_PreservesQuads

\* The rupture written, and the one read back once get_rupture has returned.
Written == held.val
ReadBack == entry = "writeTextFile" /\ pc = "done"

\* A quad with every coordinate as '%.4f' writes it.
ToFourDecimals(quad) ==
    [i \in 1 .. 4 |-> Pt(float4(fmt4(quad[i].x)), float4(fmt4(quad[i].y)),
                         float4(fmt4(quad[i].z)))]

\* The rupture read back is a QuadRupture of as many quads as were written,
\* each with the four vertices written, in the order written, and each from
\* a closed ring of its own.
SameQuadsReadBack ==
    /\ outcome.kind = "returned"
    /\ outcome.rupt.cls = "QuadRupture"
    /\ Len(outcome.rupt.quads) = Len(Written.quads)
    /\ Len(d.features[1].polygons) = Len(Written.quads)
    /\ \A k \in 1 .. Len(Written.quads) :
          /\ outcome.rupt.quads[k] = ToFourDecimals(Written.quads[k])
          /\ Len(d.features[1].polygons[k]) = 5
          /\ d.features[1].polygons[k][5] = d.features[1].polygons[k][1]

\* C30: writing a QuadRupture with writeTextFile and reading the text back
\* with get_rupture is a round trip: as many quads, each with the same four
\* vertices in the same order to the four decimals written, each quad in a
\* closed ring of its own, and the reference read back equal to the
\* reference of the rupture written.
C30_RoundTrip ==
    ReadBack =>
        /\ SameQuadsReadBack
        /\ outcome.rupt.reference = Written.reference

\* What holds of the code: the quads make the round trip, and the reference
\* read back is the stripped reference written, after a '#'.
C30_QuadsAndMarkedReference ==
    ReadBack =>
        /\ SameQuadsReadBack
        /\ outcome.rupt.reference = "#" \o str_strip(Written.reference)

====
